---- MODULE Spec2Model ----
(***************************************************************************)
(* A model of repo-summary: the command runner and JSON decoder            *)
(* (utils.py), the GitLab and GitHub adapters (gitlab.py, github.py), the  *)
(* generate command (cli.py) and the renderers (formatters.py).            *)
(*                                                                         *)
(* The program is sequential.  Every frame of the call stack is a record   *)
(* variable (gen: generate, gl: get_gitlab_groups and get_user_repos,      *)
(* gh: get_github_repos); the answers of the external tools and of the     *)
(* file system are inputs, drawn from the sets below at the step that      *)
(* reads them.                                                             *)
(***************************************************************************)
EXTENDS Integers, Sequences, FiniteSets, TLC

VARIABLES gen, gl, gh, calls, msgs, files, rc, csv, fn

vars == <<gen, gl, gh, calls, msgs, files, rc, csv, fn>>

(***************************************************************************)
(* Bounds of the model.                                                    *)
(***************************************************************************)
MaxScopes == 2      \* longest list of requested groups / owners
MaxPages == 2       \* pages a personal listing can span
MaxTextLen == 3     \* longest captured output in the run_command harness

(***************************************************************************)
(* Generic helpers.                                                        *)
(***************************************************************************)
SeqsUpTo(S, n) == UNION {[1..k -> S] : k \in 0..n}

Range(s) == {s[i] : i \in DOMAIN s}

IsPrefix(s, t) == Len(s) <= Len(t) /\ \A i \in 1..Len(s) : s[i] = t[i]

\* The concatenation of a sequence of sequences.
RECURSIVE Flatten(_)
Flatten(ss) ==
    IF Len(ss) = 0 THEN <<>>
    ELSE IF Len(ss) = 1 THEN ss[1]
    ELSE LET h == Len(ss) \div 2
         IN  Flatten(SubSeq(ss, 1, h)) \o Flatten(SubSeq(ss, h + 1, Len(ss)))

(***************************************************************************)
(* Captured output.  A text is a sequence of tokens: a whitespace          *)
(* character, a junk character (anything json.loads rejects), or one JSON  *)
(* document with its decoded value as payload v.                           *)
(***************************************************************************)
SP == [t |-> "sp", v |-> <<>>]
NL == [t |-> "nl", v |-> <<>>]
JUNK == [t |-> "junk", v |-> <<>>]
JNull == [t |-> "null", v |-> <<>>]
JList(items) == [t |-> "list", v |-> items]
JObj(fields) == [t |-> "obj", v |-> fields]

\* Python's None as the value of a decoded document.
NoneVal == [t |-> "none", v |-> <<>>]

IsSpace(tok) == tok.t \in {"sp", "nl"}

RECURSIVE LStrip(_)
LStrip(s) == IF s # <<>> /\ IsSpace(Head(s)) THEN LStrip(Tail(s)) ELSE s

RECURSIVE RStrip(_)
RStrip(s) ==
    IF s # <<>> /\ IsSpace(s[Len(s)]) THEN RStrip(SubSeq(s, 1, Len(s) - 1)) ELSE s

\* str.strip()
Strip(s) == RStrip(LStrip(s))

(***************************************************************************)
(* utils.run_command.  An outcome of subprocess.run is                     *)
(*   exit0     the program ran and exited 0, stdout captured               *)
(*   nonzero   check=True raises CalledProcessError                        *)
(*   absent    FileNotFoundError                                           *)
(*   oserror   any other error of the execution (PermissionError for a     *)
(*             file that is not executable, UnicodeDecodeError, ...)       *)
(* The result is the returned value (isNone: Python's None) or raised.     *)
(***************************************************************************)
RunKinds == {"exit0", "nonzero", "absent", "oserror"}

Outcome(kind, stdout) == [kind |-> kind, stdout |-> stdout]

RunOutcomes(texts) ==
    {Outcome("exit0", t) : t \in texts}
        \cup {Outcome(k, <<>>) : k \in RunKinds \ {"exit0"}}

\* run_command without its "except FileNotFoundError" clause.
RunCommandAbsentRaises(o) ==
    CASE o.kind = "exit0" ->
            [raised |-> FALSE, isNone |-> FALSE, text |-> Strip(o.stdout),
             diag |-> ""]
      [] o.kind = "nonzero" ->
            [raised |-> FALSE, isNone |-> TRUE, text |-> <<>>,
             diag |-> "Error running command"]
      [] OTHER ->
            [raised |-> TRUE, isNone |-> FALSE, text |-> <<>>, diag |-> ""]

RunCommand(o) ==
    CASE o.kind = "exit0" ->
            [raised |-> FALSE, isNone |-> FALSE, text |-> Strip(o.stdout),
             diag |-> ""]
      [] o.kind = "nonzero" ->
            [raised |-> FALSE, isNone |-> TRUE, text |-> <<>>,
             diag |-> "Error running command"]
      [] o.kind = "absent" ->
            [raised |-> FALSE, isNone |-> TRUE, text |-> <<>>,
             diag |-> "Command not found"]
      [] OTHER ->
            \* no except clause matches: the exception leaves run_command
            [raised |-> TRUE, isNone |-> FALSE, text |-> <<>>, diag |-> ""]

(***************************************************************************)
(* utils.parse_json_output.  json.loads accepts exactly one document,      *)
(* surrounded by optional whitespace; anything else is a JSONDecodeError,  *)
(* which is caught.                                                        *)
(***************************************************************************)
ParseJsonOutput(isNone, text) ==
    IF isNone \/ text = <<>>
    THEN NoneVal
    ELSE LET body == Strip(text)
         IN  IF Len(body) = 1 /\ body[1].t \in {"null", "list", "obj"}
             THEN body[1]
             ELSE NoneVal

\* Python truthiness of a decoded value: None, null, [] and {} are falsy.
Truthy(val) == val.t \in {"list", "obj"} /\ val.v # <<>>

(***************************************************************************)
(* Python dicts keep insertion order: a dict is a sequence of entries      *)
(* [k, v] with distinct keys; assigning to a key that exists replaces its  *)
(* value in place.                                                         *)
(***************************************************************************)
DictKeys(d) == {d[i].k : i \in DOMAIN d}

DictHas(d, k) == k \in DictKeys(d)

DictGet(d, k) == d[CHOOSE i \in DOMAIN d : d[i].k = k].v

DictPut(d, k, v) ==
    IF DictHas(d, k)
    THEN [i \in DOMAIN d |-> IF d[i].k = k THEN [k |-> k, v |-> v] ELSE d[i]]
    ELSE Append(d, [k |-> k, v |-> v])

(***************************************************************************)
(* Language percentages: round(bytes / total * 100, 1), kept in tenths of  *)
(* a percent; Python rounds a tie to the even digit.                       *)
(***************************************************************************)
\* The percentage cut to one decimal instead of rounded.
PctTruncated(bytes, total) == (1000 * bytes) \div total

Pct(bytes, total) ==
    LET q == (1000 * bytes) \div total
        r == (1000 * bytes) % total
    IN  IF 2 * r > total THEN q + 1
        ELSE IF 2 * r = total THEN q + (q % 2)
        ELSE q

RECURSIVE SumSizes(_)
SumSizes(nodes) == IF nodes = <<>> THEN 0 ELSE Head(nodes)[2] + SumSizes(Tail(nodes))

Percentages(nodes) ==
    [i \in DOMAIN nodes |-> <<nodes[i][1], Pct(nodes[i][2], SumSizes(nodes))>>]

\* max(languages.items(), key=lambda x: x[1])[0]: the first entry, in the
\* dict's order, with the largest value.
RECURSIVE MaxEntry(_)
MaxEntry(langs) ==
    IF Len(langs) = 1 THEN langs[1]
    ELSE LET rest == MaxEntry(Tail(langs))
         IN  IF rest[2] > Head(langs)[2] THEN rest ELSE Head(langs)

\* gitlab.get_primary_language / github.get_primary_language
GetPrimaryLanguage(langs) == IF langs = <<>> THEN "" ELSE MaxEntry(langs)[1]

(***************************************************************************)
(* Numbers as text, and Python integers of any size.  A Python int is the  *)
(* sequence of its base-1024 digits, least significant first, without      *)
(* leading zeros (0 is the empty sequence), wrapped like NoneVal so that   *)
(* an Optional[int] is one of the two.                                     *)
(***************************************************************************)
DigitChars == <<"0", "1", "2", "3", "4", "5", "6", "7", "8", "9">>

RECURSIVE NatStr(_)
NatStr(n) ==
    IF n < 10 THEN DigitChars[n + 1]
    ELSE NatStr(n \div 10) \o DigitChars[(n % 10) + 1]

\* The divisor of format_size's loop.
Kibi == 1024

RECURSIVE PyDigits(_)
PyDigits(n) == IF n = 0 THEN <<>> ELSE <<n % Kibi>> \o PyDigits(n \div Kibi)

PyInt(n) == [t |-> "int", v |-> PyDigits(n)]

(***************************************************************************)
(* utils.format_size                                                       *)
(***************************************************************************)
Units == <<"B", "KB", "MB", "GB", "TB">>

\* The while loop: size is whole + frac / 1024^Len(frac); one division moves
\* the lowest whole digit to the top of the fraction.  size >= 1024 exactly
\* when the whole part has more than one digit.
RECURSIVE ScaleLoop(_, _, _)
ScaleLoop(whole, frac, unit_index) ==
    IF Len(whole) > 1 /\ unit_index < Len(Units) - 1
    THEN ScaleLoop(Tail(whole), Append(frac, Head(whole)), unit_index + 1)
    ELSE [whole |-> whole, frac |-> frac, unit_index |-> unit_index]

RECURSIVE WholeValue(_)
WholeValue(whole) ==
    IF whole = <<>> THEN 0 ELSE Head(whole) + Kibi * WholeValue(Tail(whole))

\* frac * 10: the digits that stay in the fraction and the carry out of it.
RECURSIVE TimesTen(_, _)
TimesTen(frac, carry) ==
    IF frac = <<>> THEN [rem |-> <<>>, carry |-> carry]
    ELSE LET t == 10 * Head(frac) + carry
             rest == TimesTen(Tail(frac), t \div Kibi)
         IN  [rem |-> <<t % Kibi>> \o rest.rem, carry |-> rest.carry]

\* A fraction against one half: -1 below, 0 equal, 1 above.
HalfCmp(rem) ==
    IF rem = <<>> THEN -1
    ELSE LET top == rem[Len(rem)]
             low == \E i \in 1..(Len(rem) - 1) : rem[i] # 0
         IN  IF top > Kibi \div 2 \/ (top = Kibi \div 2 /\ low) THEN 1
             ELSE IF top = Kibi \div 2 THEN 0
             ELSE -1

OneDecimalTruncated(whole, frac) ==
    10 * WholeValue(whole) + TimesTen(frac, 0).carry

\* f"{size:.1f}": the tenths of the value, correctly rounded, a tie going to
\* the even neighbour.  The float is exact here: the sizes are below 2^53
\* and every division is by a power of two.
OneDecimal(whole, frac) ==
    LET x == TimesTen(frac, 0)
        tenths == 10 * WholeValue(whole) + x.carry
        cmp == HalfCmp(x.rem)
    IN  IF cmp = 1 \/ (cmp = 0 /\ tenths % 2 = 1) THEN tenths + 1 ELSE tenths

Fixed1(tenths) == NatStr(tenths \div 10) \o "." \o NatStr(tenths % 10)

FormatSize(size_bytes) ==
    IF size_bytes = NoneVal \/ size_bytes.v = <<>> THEN "0 B"
    ELSE LET s == ScaleLoop(size_bytes.v, <<>>, 0)
         IN  Fixed1(OneDecimal(s.whole, s.frac)) \o " " \o Units[s.unit_index + 1]

(***************************************************************************)
(* utils.format_date.  A date string is held by its parts, and Written     *)
(* gives its text: a date "Y-M-D" whose month and day are written with or  *)
(* without their leading zero, then nothing, or a separator, a time of     *)
(* day "hh:mm:ss" and a zone; or some text that is no date at all.         *)
(***************************************************************************)
Pad2(n) == IF n < 10 THEN "0" \o NatStr(n) ELSE NatStr(n)

Pad4(n) ==
    IF n < 10 THEN "000" \o NatStr(n)
    ELSE IF n < 100 THEN "00" \o NatStr(n)
    ELSE IF n < 1000 THEN "0" \o NatStr(n)
    ELSE NatStr(n)

DateStr(y, m, d, padded, sep, h, mi, s, zone) ==
    [kind |-> "date", y |-> y, m |-> m, d |-> d, padded |-> padded, sep |-> sep,
     h |-> h, mi |-> mi, s |-> s, zone |-> zone]

\* Text that is no date; hasT: it holds a capital T.
OtherStr(hasT) == [kind |-> "other", hasT |-> hasT]

EmptyStr == [kind |-> "empty"]

NoDate == [kind |-> "none"]

Written(x) ==
    CASE x.kind = "empty" -> ""
      [] x.kind = "other" -> IF x.hasT THEN "Tomorrow" ELSE "yesterday"
      [] OTHER ->
            Pad4(x.y) \o "-" \o (IF x.padded THEN Pad2(x.m) ELSE NatStr(x.m))
                \o "-" \o (IF x.padded THEN Pad2(x.d) ELSE NatStr(x.d))
                \o (IF x.sep = "" THEN ""
                    ELSE x.sep \o Pad2(x.h) \o ":" \o Pad2(x.mi) \o ":" \o Pad2(x.s)
                            \o x.zone)

\* 'T' in date_str
HasT(x) == IF x.kind = "other" THEN x.hasT ELSE x.sep = "T"

IsLeapYear(y) == (y % 4 = 0 /\ y % 100 # 0) \/ y % 400 = 0

DaysInMonth(y, m) ==
    IF m = 2 THEN (IF IsLeapYear(y) THEN 29 ELSE 28)
    ELSE IF m \in {4, 6, 9, 11} THEN 30 ELSE 31

\* What the datetime constructor accepts.
IsCalendarDate(y, m, d) ==
    /\ y \in 1..9999
    /\ m \in 1..12
    /\ d \in 1..DaysInMonth(y, m)

\* Both digits of the month and of the day are written.
TwoDigits(x) == x.padded \/ (x.m >= 10 /\ x.d >= 10)

\* datetime.fromisoformat(date_str.replace('Z', '+00:00')) returns a value:
\* a date of two-digit fields, a 'T', a time of day on the 24-hour clock
\* and no zone or an offset; anything else is a ValueError.
FromIsoFormatParses(x) ==
    /\ x.kind = "date"
    /\ TwoDigits(x)
    /\ IsCalendarDate(x.y, x.m, x.d)
    /\ x.sep = "T"
    /\ x.h \in 0..23 /\ x.mi \in 0..59 /\ x.s \in 0..59

\* datetime.strptime(date_str, "%Y-%m-%d") returns a value: a date and
\* nothing after it; %m and %d take one or two digits.
StrptimeParses(x) ==
    /\ x.kind = "date"
    /\ IsCalendarDate(x.y, x.m, x.d)
    /\ x.sep = ""

\* dt.strftime("%Y-%m-%d").  %Y is the platform's: the year is written in
\* four digits, or, as on glibc, without leading zeros.
Strftime(x, padsYear) ==
    (IF padsYear THEN Pad4(x.y) ELSE NatStr(x.y)) \o "-" \o Pad2(x.m) \o "-" \o Pad2(x.d)

\* format_date with a 'T' test that also takes a lowercase t.
FormatDateAnyT(x, padsYear) ==
    IF x.kind \in {"none", "empty"} THEN [text |-> "", path |-> "none"]
    ELSE IF HasT(x) \/ (x.kind = "date" /\ x.sep = "t")
    THEN [text |-> IF FromIsoFormatParses(x) THEN Strftime(x, padsYear) ELSE Written(x),
          path |-> "iso"]
    ELSE [text |-> IF StrptimeParses(x) THEN Strftime(x, padsYear) ELSE Written(x),
          path |-> "date"]

\* path is the parser the call went to.
FormatDate(x, padsYear) ==
    IF x.kind \in {"none", "empty"} THEN [text |-> "", path |-> "none"]
    ELSE IF HasT(x)
    THEN [text |-> IF FromIsoFormatParses(x) THEN Strftime(x, padsYear) ELSE Written(x),
          path |-> "iso"]
    ELSE [text |-> IF StrptimeParses(x) THEN Strftime(x, padsYear) ELSE Written(x),
          path |-> "date"]

(***************************************************************************)
(* The normalized Repository.  keys is the set of optional keys the dict   *)
(* holds; a field whose key is absent holds its type's empty value.        *)
(***************************************************************************)
OptionalKeys == {"primary_language", "languages", "topics"}

(***************************************************************************)
(* GitLab raw records and gitlab.extract_repo_info.                        *)
(***************************************************************************)
\* A field of a raw record: missing, null, or holding a value.
JMissing(empty) == [state |-> "missing", v |-> empty]

JNullField(empty) == [state |-> "null", v |-> empty]

JValue(v) == [state |-> "value", v |-> v]

\* isNull: the record holds "namespace": null.
Ns(path, kind, name) ==
    [present |-> TRUE, isNull |-> FALSE, path |-> path, kind |-> kind, name |-> name]

NsMissing == [present |-> FALSE, isNull |-> FALSE, path |-> "", kind |-> "", name |-> ""]

NsNull == [present |-> TRUE, isNull |-> TRUE, path |-> "", kind |-> "", name |-> ""]

GlRaw(pwn, ns, id) ==
    [path_with_namespace |-> pwn, namespace |-> ns, id |-> id,
     statistics |-> [present |-> FALSE, repository_size |-> 0],
     topics |-> <<>>,
     visibility |-> JValue("private")]

\* extract_repo_info raises AttributeError at line 247 on a null namespace:
\* repo.get("namespace", {}) is then None, and None has no get.
GlExtractRaises(repo) == repo.namespace.isNull

\* A mapping that folds every value outside public and private into
\* "unknown".
GlVisibilityFolded(repo) ==
    IF repo.visibility \in {JValue("public"), JValue("private")}
    THEN repo.visibility ELSE JValue("unknown")

\* repo.get("visibility", "unknown"): the default only replaces a missing
\* key; whatever the record holds, null included, is passed on.
GlVisibility(repo) ==
    IF repo.visibility.state = "missing" THEN JValue("unknown") ELSE repo.visibility

GlExtractRepoInfo(repo) ==
    [path |-> repo.path_with_namespace,
     namespace |-> repo.namespace.name,
     visibility |-> GlVisibility(repo),
     size |-> FormatSize(PyInt(IF repo.statistics.present
                               THEN repo.statistics.repository_size ELSE 0)),
     size_bytes |-> IF repo.statistics.present
                    THEN repo.statistics.repository_size ELSE 0,
     topics |-> repo.topics,
     primary_language |-> "",
     languages |-> <<>>,
     keys |-> {"topics"}]

(***************************************************************************)
(* gitlab.get_repo_languages and gitlab.get_project_statistics: the two    *)
(* enrichment calls.  Each returns [raised, isNone, ...].                  *)
(***************************************************************************)
GetRepoLanguages(o) ==
    LET out == RunCommand(o)
        data == ParseJsonOutput(out.isNone, out.text)
    IN  IF out.raised THEN [raised |-> TRUE, isNone |-> TRUE, langs |-> <<>>]
        ELSE IF out.isNone \/ out.text = <<>> \/ ~Truthy(data)
                  \/ SumSizes(data.v) = 0
        THEN [raised |-> FALSE, isNone |-> TRUE, langs |-> <<>>]
        ELSE [raised |-> FALSE, isNone |-> FALSE, langs |-> Percentages(data.v)]

\* The statistics document is an object whose single field record says
\* whether it holds a non-empty "statistics" sub-object, and its size.
GetProjectStatistics(o) ==
    LET out == RunCommand(o)
        data == ParseJsonOutput(out.isNone, out.text)
    IN  IF out.raised THEN [raised |-> TRUE, isNone |-> TRUE, size |-> 0]
        ELSE IF out.isNone \/ out.text = <<>> \/ ~Truthy(data)
                  \/ ~data.v[1].has_statistics
        THEN [raised |-> FALSE, isNone |-> TRUE, size |-> 0]
        ELSE [raised |-> FALSE, isNone |-> FALSE, size |-> data.v[1].repository_size]

\* Lines 137-152 / 200-215: one repository with include_languages set.
\* enrich is the pair of answers the tool gives to the two calls.
EnrichRaises(repo, enrich) ==
    \/ GetRepoLanguages(enrich.langs).raised
    \/ repo.id # 0 /\ GetProjectStatistics(enrich.stats).raised

\* How the enrichment call that raised ended.
EnrichExc(enrich) ==
    IF GetRepoLanguages(enrich.langs).raised THEN enrich.langs.kind
    ELSE enrich.stats.kind

\* An enrichment that writes what the two calls gave, whatever it was.
EnrichUnconditional(repo, info, enrich) ==
    LET l == GetRepoLanguages(enrich.langs)
        st == GetProjectStatistics(enrich.stats)
    IN  [info EXCEPT !.languages = l.langs,
                     !.primary_language = GetPrimaryLanguage(l.langs),
                     !.keys = @ \cup {"languages", "primary_language"},
                     !.size = FormatSize(PyInt(st.size)),
                     !.size_bytes = st.size]

Enrich(repo, info, enrich) ==
    LET l == GetRepoLanguages(enrich.langs)
        st == GetProjectStatistics(enrich.stats)
        withLangs ==
            IF ~l.isNone
            THEN [info EXCEPT !.languages = l.langs,
                              !.primary_language = GetPrimaryLanguage(l.langs),
                              !.keys = @ \cup {"languages", "primary_language"}]
            ELSE info
    IN  IF repo.id # 0 /\ ~st.isNone
        THEN [withLangs EXCEPT !.size = FormatSize(PyInt(st.size)),
                               !.size_bytes = st.size]
        ELSE withLangs

GlRepoInfo(repo, include_languages, enrich) ==
    IF include_languages
    THEN Enrich(repo, GlExtractRepoInfo(repo), enrich)
    ELSE GlExtractRepoInfo(repo)

\* The run_command calls of one repository's enrichment, in order.
EnrichCalls(repo) ==
    <<[tool |-> "glab", cmd |-> "api languages", arg |-> repo.path_with_namespace]>>
        \o (IF repo.id # 0
            THEN <<[tool |-> "glab", cmd |-> "api statistics",
                    arg |-> repo.path_with_namespace]>>
            ELSE <<>>)

EnrichCallsAll(raws) == Flatten([i \in DOMAIN raws |-> EnrichCalls(raws[i])])

(***************************************************************************)
(* gitlab.get_group_repos, lines 186-217, on the tool's answer o.          *)
(***************************************************************************)
\* The exception that ends the loop over the listed records, "" if none:
\* each record is mapped and then enriched before the next is looked at.
FirstFault(raws, include_languages, enrich) ==
    LET faulty == {i \in DOMAIN raws :
                      \/ GlExtractRaises(raws[i])
                      \/ include_languages /\ EnrichRaises(raws[i], enrich)}
        first == CHOOSE i \in faulty : \A j \in faulty : i <= j
    IN  IF faulty = {} THEN ""
        ELSE IF GlExtractRaises(raws[first]) THEN "AttributeError"
        ELSE EnrichExc(enrich)

\* A document that is an object where a list is expected: "for repo in
\* repos_data" then walks its keys, and a key, a string, has no get.
GetGroupRepos(o, include_languages, enrich) ==
    LET out == RunCommand(o)
        data == ParseJsonOutput(out.isNone, out.text)
    IN  IF out.raised
        THEN [raised |-> TRUE, exc |-> o.kind, repos |-> <<>>, raws |-> <<>>]
        ELSE IF out.isNone \/ out.text = <<>> \/ ~Truthy(data)
        THEN [raised |-> FALSE, exc |-> "", repos |-> <<>>, raws |-> <<>>]
        ELSE IF data.t # "list"
        THEN [raised |-> TRUE, exc |-> "AttributeError", repos |-> <<>>, raws |-> <<>>]
        ELSE IF FirstFault(data.v, include_languages, enrich) # ""
        THEN [raised |-> TRUE, exc |-> FirstFault(data.v, include_languages, enrich),
              repos |-> <<>>, raws |-> data.v]
        ELSE [raised |-> FALSE,
              exc |-> "",
              repos |-> [i \in DOMAIN data.v |->
                            GlRepoInfo(data.v[i], include_languages, enrich)],
              raws |-> data.v]

(***************************************************************************)
(* gitlab.get_user_repos, lines 127-154: the filter over the accumulated   *)
(* listing.                                                                *)
(***************************************************************************)
\* The filter without its test of the namespace kind.
IsPersonalAnyKind(repo, username) == repo.namespace.path = username

IsPersonal(repo, username) ==
    repo.namespace.path = username /\ repo.namespace.kind = "user"

FilterPersonal(raws, username) ==
    LET Keep(repo) == IsPersonal(repo, username)
    IN  SelectSeq(raws, Keep)

\* The exception that ends the loop of lines 129-152, "" if none.  Line 130
\* raises AttributeError on a record whose namespace is null:
\* repo.get("namespace", {}) is then None.  A record that passes the filter
\* is mapped and enriched before the next is looked at.
UserFault(raws, username, include_languages, enrich) ==
    LET faulty == {i \in DOMAIN raws :
                      \/ raws[i].namespace.isNull
                      \/ /\ IsPersonal(raws[i], username)
                         /\ include_languages
                         /\ EnrichRaises(raws[i], enrich)}
        first == CHOOSE i \in faulty : \A j \in faulty : i <= j
    IN  IF faulty = {} THEN ""
        ELSE IF raws[first].namespace.isNull THEN "AttributeError"
        ELSE EnrichExc(enrich)

(***************************************************************************)
(* GitHub raw records and github.extract_repo_info, lines 131-194.         *)
(***************************************************************************)
GhRaw(name, login, primary, nodes, topics, diskUsage) ==
    [name |-> name,
     owner |-> [present |-> login # "", login |-> login],
     primaryLanguage |-> [present |-> primary # "", name |-> primary],
     languages |-> [present |-> TRUE, nodes |-> nodes],
     repositoryTopics |-> [present |-> TRUE, nodes |-> topics],
     isPrivate |-> JValue(FALSE),
     diskUsage |-> JValue(diskUsage)]

\* extract_repo_info raises TypeError at line 188 on "diskUsage": null:
\* repo.get('diskUsage', 0) is then None, and None * 1024 is not defined.
GhExtractRaises(repo) == repo.diskUsage.state = "null"

\* Line 188 without its factor: the size left in kibibytes.
GhSizeBytesUnscaled(repo) == IF repo.diskUsage.state = "value" THEN repo.diskUsage.v ELSE 0

\* repo.get('diskUsage', 0) * 1024
GhSizeBytes(repo) ==
    IF repo.diskUsage.state = "value" THEN repo.diskUsage.v * Kibi ELSE 0

GhExtractRepoInfo(repo) ==
    LET owner == IF repo.owner.present THEN repo.owner.login ELSE ""
    IN  [path |-> owner \o "/" \o repo.name,
         namespace |-> owner,
         visibility |-> IF repo.isPrivate.state = "value" /\ repo.isPrivate.v
                        THEN JValue("private") ELSE JValue("public"),
         size |-> IF repo.diskUsage.state = "value" /\ repo.diskUsage.v # 0
                  THEN FormatSize(PyInt(repo.diskUsage.v * Kibi)) ELSE "0 B",
         size_bytes |-> GhSizeBytes(repo),
         topics |-> IF repo.repositoryTopics.present
                    THEN repo.repositoryTopics.nodes ELSE <<>>,
         primary_language |-> IF repo.primaryLanguage.present
                              THEN repo.primaryLanguage.name ELSE "",
         languages |-> IF repo.languages.present
                          /\ SumSizes(repo.languages.nodes) > 0
                       THEN Percentages(repo.languages.nodes) ELSE <<>>,
         keys |-> OptionalKeys]

\* github.get_owner_repos, lines 104-118.
GetOwnerRepos(o) ==
    LET out == RunCommand(o)
        data == ParseJsonOutput(out.isNone, out.text)
    IN  IF out.raised THEN [raised |-> TRUE, exc |-> o.kind, repos |-> <<>>]
        ELSE IF out.isNone \/ out.text = <<>> \/ ~Truthy(data)
        THEN [raised |-> FALSE, exc |-> "", repos |-> <<>>]
        ELSE IF data.t # "list"
        THEN [raised |-> TRUE, exc |-> "AttributeError", repos |-> <<>>]
        ELSE IF \E i \in DOMAIN data.v : GhExtractRaises(data.v[i])
        THEN [raised |-> TRUE, exc |-> "TypeError", repos |-> <<>>]
        ELSE [raised |-> FALSE, exc |-> "",
              repos |-> [i \in DOMAIN data.v |-> GhExtractRepoInfo(data.v[i])]]

(***************************************************************************)
(* formatters.format_csv.  A row is what csv.DictWriter is handed: the     *)
(* keys the loop computes, overlaid by the repository's own keys.  The     *)
(* topics cell is the text the writer puts in the file: the joined string  *)
(* or, when the value comes from the repository itself, str() of the list. *)
(***************************************************************************)
CsvPrimaryLang(repo) ==
    LET primary_lang == IF "primary_language" \in repo.keys
                        THEN repo.primary_language ELSE ""
    IN  IF primary_lang = "" /\ "languages" \in repo.keys /\ repo.languages # <<>>
        THEN MaxEntry(repo.languages)[1]
        ELSE primary_lang

\* sep.join(items)
RECURSIVE Join(_, _)
Join(items, sep) ==
    IF items = <<>> THEN ""
    ELSE IF Len(items) = 1 THEN items[1]
    ELSE items[1] \o sep \o Join(Tail(items), sep)

\* str() of a list of strings, which is what csv.DictWriter writes for a
\* value that is a list.
ListStr(items) ==
    "[" \o Join([i \in DOMAIN items |-> "'" \o items[i] \o "'"], ", ") \o "]"

CsvRow(platform, org, repo) ==
    [platform |-> platform,
     organization |-> org,
     path |-> repo.path,
     primary_language |-> IF "primary_language" \in repo.keys
                          THEN repo.primary_language
                          ELSE CsvPrimaryLang(repo),
     topics |-> IF "topics" \in repo.keys
                THEN ListStr(repo.topics)
                ELSE Join(<<>>, ", "),
     size_bytes |-> repo.size_bytes]

\* The rows in writing order: platforms, then organizations, then repos.
CsvRows(data) ==
    Flatten([p \in DOMAIN data |->
        Flatten([o \in DOMAIN data[p].v |->
            [r \in DOMAIN data[p].v[o].v |->
                CsvRow(data[p].k, data[p].v[o].k, data[p].v[o].v[r])]])])

\* The repositories of an aggregate, in the same order.
AllRepos(data) ==
    Flatten([p \in DOMAIN data |->
        Flatten([o \in DOMAIN data[p].v |-> data[p].v[o].v])])

(***************************************************************************)
(* A renderer's write.  open(output_file, "w") either fails with IOError,  *)
(* leaving the directory as it was, or truncates the file; a write can     *)
(* then still fail, leaving a partial file.  Every renderer catches        *)
(* IOError and returns False.                                              *)
(***************************************************************************)
WriteOutcomes == {"ok", "open fails", "write fails"}

Partial == [partial |-> TRUE]

\* A write whose failure empties the directory.
WriteFileRollback(fs, name, content, outcome) ==
    IF outcome = "ok" THEN DictPut(fs, name, content) ELSE <<>>

WriteFile(fs, name, content, outcome) ==
    CASE outcome = "ok" -> DictPut(fs, name, content)
      [] outcome = "write fails" -> DictPut(fs, name, Partial)
      [] OTHER -> fs

FormatCsv(fs, data, output_file, outcome) ==
    WriteFile(fs, output_file, [format |-> "csv", rows |-> CsvRows(data)], outcome)

(***************************************************************************)
(* cli.generate.  The inputs of one invocation: the options as click       *)
(* hands them over and the configuration file.  An option that was not     *)
(* given holds click's default (cli.py lines 28-71).                       *)
(***************************************************************************)
\* One invocation of an external tool, as the call log keeps it.
Call(tool, cmd, arg) == [tool |-> tool, cmd |-> cmd, arg |-> arg]

\* github.get_github_repos: the default of limit.
DefaultLimit == 100

DefaultOutput == "./outputs"

DefaultFormats == <<"markdown">>

\* utils.load_config and cli.py line 92.  A file is missing, empty
\* (yaml.safe_load gives None, as does a YAML error) or holds a mapping; in
\* a mapping an absent key is shown by the empty value.
Cfg(groups, include_mine, owners, limit, directory, formats, languages) ==
    [isNone |-> FALSE, groups |-> groups, include_mine |-> include_mine,
     owners |-> owners, limit |-> limit, output_directory |-> directory,
     output_formats |-> formats, include_languages |-> languages]

EmptyCfg == Cfg(<<>>, FALSE, <<>>, DefaultLimit, "", <<>>, FALSE)

NoneCfg == [EmptyCfg EXCEPT !.isNone = TRUE]

MissingFile == [state |-> "missing", content |-> EmptyCfg]

EmptyFile == [state |-> "empty", content |-> EmptyCfg]

MappingFile(cfg) == [state |-> "mapping", content |-> cfg]

LoadConfig(file) ==
    IF file.state = "missing" THEN EmptyCfg
    ELSE IF file.state = "empty" THEN NoneCfg
    ELSE file.content

\* str.capitalize and str.lower on the prefixes generate builds.
Capitalize(s) ==
    CASE s = "gitlab" -> "Gitlab"
      [] s = "github" -> "Github"
      [] OTHER -> s

Lower(s) ==
    CASE s = "Gitlab" -> "gitlab"
      [] s = "Github" -> "github"
      [] s = "All-Platforms" -> "all-platforms"
      [] OTHER -> s

\* The prefix taken from the first platform alone.
PrefixOfFirst(all_data) == Capitalize(all_data[1].k)

\* Lines 156-160.
Prefix(all_data) ==
    IF Len(all_data) = 1 THEN Capitalize(all_data[1].k) ELSE "All-Platforms"

\* Lines 163-174: the file of one format.
OutputFile(output, prefix, fmt) ==
    output \o "/" \o
        (CASE fmt = "markdown" -> prefix \o "-Repository-Summary.md"
           [] fmt = "json" -> Lower(prefix) \o "-repository-summary.json"
           [] fmt = "csv" -> Lower(prefix) \o "-repository-summary.csv"
           [] OTHER -> Lower(prefix) \o "-repository-summary.html")

\* utils.check_cli_available on how "<tool> --version" ended.
CheckCliAvailable(kind) ==
    [raised |-> kind = "oserror", ok |-> kind = "exit0"]

(***************************************************************************)
(* The renderers other than format_csv.  The layout of a report is not     *)
(* modelled: a report is its format and the aggregate it was made from.    *)
(* format_markdown then runs prettier over the file it wrote               *)
(* (format_markdown_file); an error of that run other than the three       *)
(* format_markdown_file catches is an OSError, which format_markdown's     *)
(* own handler takes for a write error.                                    *)
(***************************************************************************)
PrettierOutcomes == {"absent", "formatted", "fails", "oserror"}

Report(fmt, data) ==
    IF fmt = "csv" THEN [format |-> "csv", rows |-> CsvRows(data)]
    ELSE [format |-> fmt, data |-> data]

FormatJson(fs, data, output_file, outcome) ==
    WriteFile(fs, output_file, Report("json", data), outcome)

FormatHtml(fs, data, output_file, outcome) ==
    WriteFile(fs, output_file, Report("html", data), outcome)

FormatMarkdown(fs, data, output_file, outcome) ==
    WriteFile(fs, output_file, Report("markdown", data), outcome)

\* What a renderer returns.
Rendered(fmt, outcome, prettier) ==
    outcome = "ok" /\ ~(fmt = "markdown" /\ prettier = "oserror")

PrettierCalls(output_file, prettier) ==
    <<Call("npx", "prettier --version", "")>>
        \o (IF prettier \in {"formatted", "fails"}
            THEN <<Call("npx", "prettier --write", output_file)>> ELSE <<>>)

(***************************************************************************)
(* check_gitlab_auth / check_github_auth: subprocess.run with check=True;  *)
(* an answer is how the run ended and whether "Logged in" is in its        *)
(* stderr + stdout.                                                        *)
(***************************************************************************)
AuthOutcomes ==
    {[kind |-> "exit0", marker |-> TRUE], [kind |-> "exit0", marker |-> FALSE],
     [kind |-> "nonzero", marker |-> TRUE], [kind |-> "absent", marker |-> FALSE],
     [kind |-> "oserror", marker |-> FALSE]}

\* The check without check=True: the exit status is not looked at.
CheckAuthAnyStatus(a) ==
    CASE a.kind \in {"exit0", "nonzero"} -> [raised |-> FALSE, ok |-> a.marker]
      [] a.kind = "absent" -> [raised |-> FALSE, ok |-> FALSE]
      [] OTHER -> [raised |-> TRUE, ok |-> FALSE]

CheckAuth(a) ==
    CASE a.kind = "exit0" -> [raised |-> FALSE, ok |-> a.marker]
      [] a.kind \in {"nonzero", "absent"} -> [raised |-> FALSE, ok |-> FALSE]
      [] OTHER -> [raised |-> TRUE, ok |-> FALSE]

\* One run of "auth status" with its two streams, and what the check sees
\* of it: output = result.stderr + result.stdout, "Logged in" in output.
AuthMarker == "Logged in"

HasMarker(output) == \E i \in DOMAIN output : output[i] = AuthMarker

AuthOutcomeOf(run) ==
    [kind |-> run.kind, marker |-> HasMarker(run.stderr \o run.stdout)]

(***************************************************************************)
(* The answers of the tools.                                               *)
(***************************************************************************)
PerPage == 100

Usernames == {"alice", "bob"}

glApp == GlRaw("alice/app", Ns("alice", "user", "Alice"), 11)
glLib == GlRaw("alice/lib", Ns("alice", "user", "Alice"), 0)
glGrp == GlRaw("alice/shared", Ns("alice", "group", "Alice"), 13)
glBob == GlRaw("bob/fork", Ns("bob", "user", "Bob"), 14)
glOrphan == GlRaw("x/orphan", NsMissing, 15)
glSvc == [GlRaw("team/svc", Ns("team", "group", "Team"), 21)
            EXCEPT !.statistics = [present |-> TRUE, repository_size |-> 4096],
                   !.topics = <<"go", "api">>]
glWeb == GlRaw("team/web", Ns("team", "group", "Team"), 22)

\* outputs that yield no data: nothing, junk, the document null
FailTexts == {<<>>, <<JUNK>>, <<JNull>>}

GroupListings == {<<>>, <<glSvc>>, <<glWeb, glSvc>>}

GroupTexts ==
    FailTexts \cup {<<JList(l)>> : l \in GroupListings}
        \cup {<<SP, JList(<<glSvc>>), NL>>}

ShortPages == {<<>>, <<glApp>>, <<glGrp, glLib, glBob, glApp>>, <<glOrphan, glGrp>>}

FullPage(pattern) ==
    [i \in 1..PerPage |-> pattern[((i - 1) % Len(pattern)) + 1]]

FullPages == {FullPage(<<glBob, glApp, glGrp>>)}

\* A listing is finite: its last page, MaxPages at the latest, is not full.
PageTexts(page) ==
    FailTexts \cup {<<JList(l)>> : l \in ShortPages}
        \cup (IF page < MaxPages THEN {<<JList(l)>> : l \in FullPages} ELSE {})

UserTexts ==
    FailTexts
        \cup {<<JObj(<<[has_username |-> TRUE, username |-> u]>>), NL>> :
                 u \in Usernames}
        \cup {<<JObj(<<[has_username |-> FALSE, username |-> ""]>>)>>}

LangsOk == Outcome("exit0", <<JObj(<<<<"Go", 3>>, <<"Rust", 1>>>>)>>)
LangsZero == Outcome("exit0", <<JObj(<<<<"Go", 0>>>>)>>)
StatsOk ==
    Outcome("exit0", <<JObj(<<[has_statistics |-> TRUE, repository_size |-> 2048]>>)>>)
StatsMissing ==
    Outcome("exit0", <<JObj(<<[has_statistics |-> FALSE, repository_size |-> 0]>>)>>)
Failed == Outcome("nonzero", <<>>)

NoEnrich == [langs |-> Failed, stats |-> Failed]

EnrichAnswers ==
    {[langs |-> LangsOk, stats |-> StatsOk],
     [langs |-> LangsZero, stats |-> StatsMissing],
     [langs |-> LangsOk, stats |-> Failed],
     [langs |-> Outcome("oserror", <<>>), stats |-> StatsOk],
     NoEnrich}

ghCli == GhRaw("cli", "octo", "Go", <<<<"Go", 3>>, <<"Shell", 1>>>>, <<"cli">>, 10)
ghDocs == GhRaw("docs", "octo", "", <<>>, <<>>, 0)
ghMix == GhRaw("mix", "octo", "", <<<<"Rust", 2>>, <<"Go", 3>>>>, <<"a", "b">>, 3)

OwnerListings == {<<>>, <<ghCli>>, <<ghDocs, ghMix>>}

OwnerTexts ==
    FailTexts \cup {<<JList(l)>> : l \in OwnerListings}
        \cup {<<NL, JList(<<ghCli>>)>>}

\* Why a listing call yielded what it did.
Why(o) ==
    LET out == RunCommand(o)
        data == ParseJsonOutput(out.isNone, out.text)
    IN  CASE o.kind # "exit0" -> o.kind
          [] out.text = <<>> -> "no output"
          [] data = NoneVal -> "malformed"
          [] ~Truthy(data) -> "no items"
          [] OTHER -> "ok"

(***************************************************************************)
(* get_gitlab_groups (gl) and get_user_repos, step by step.                *)
(*   pc: auth -> [user -> page* -> filter] -> groups* -> returned          *)
(*   raised: an exception left the function.                               *)
(***************************************************************************)
\* Frames that are not on the stack.
GenIdle == [pc |-> "idle"]

CsvIdle == [called |-> FALSE]

FnIdle == [op |-> "none", called |-> FALSE]

RcIdle == [called |-> FALSE, outcome |-> Outcome("absent", <<>>),
           result |-> RunCommand(Outcome("absent", <<>>))]

GlIdle == [pc |-> "idle"]

GhIdle == [pc |-> "idle"]

GlEntry(groups, include_languages, include_mine, enrich) ==
    [pc |-> "auth", groups |-> groups, include_languages |-> include_languages,
     include_mine |-> include_mine, enrich |-> enrich, authed |-> FALSE,
     idx |-> 1, all_repos |-> <<>>, attempts |-> <<>>, username |-> "",
     page |-> 0, pages |-> <<>>, all_repos_data |-> <<>>, listed |-> <<>>,
     result |-> <<>>, exc |-> ""]

\* The loop body without its "if repos:" test.
StoreAlways(frame, kind, scope, repos, why) ==
    [frame EXCEPT
        !.all_repos = DictPut(@, scope, repos),
        !.attempts = Append(@, [kind |-> kind, scope |-> scope, repos |-> repos,
                                warned |-> repos = <<>>, why |-> why])]

\* Lines 58-63 and 69-74: keep a non-empty result under the scope's name,
\* warn otherwise.
Store(frame, kind, scope, repos, why) ==
    [frame EXCEPT
        !.all_repos = IF repos # <<>> THEN DictPut(@, scope, repos) ELSE @,
        !.attempts = Append(@, [kind |-> kind, scope |-> scope, repos |-> repos,
                                warned |-> repos = <<>>, why |-> why])]

\* An exception leaves the function; exc is how the call that raised ended.
Raise(frame, exc) == [frame EXCEPT !.pc = "raised", !.exc = exc]

\* Lines 43-45.
GlAuth ==
    /\ gl.pc = "auth"
    /\ \E a \in AuthOutcomes :
          LET r == CheckAuth(a)
          IN  /\ gl' = IF r.raised THEN Raise(gl, a.kind)
                       ELSE IF ~r.ok THEN [gl EXCEPT !.pc = "returned"]
                       ELSE [gl EXCEPT !.authed = TRUE,
                                       !.pc = IF gl.include_mine THEN "user"
                                              ELSE "groups"]
              /\ msgs' = IF ~r.raised /\ ~r.ok
                         THEN msgs \cup {"GitLab authentication required"}
                         ELSE msgs
    /\ calls' = Append(calls, Call("glab", "auth status", ""))
    /\ UNCHANGED <<gen, gh, files, rc, csv, fn>>

\* gitlab.get_authenticated_username, lines 163-172.
GetAuthenticatedUsername(o) ==
    LET out == RunCommand(o)
        data == ParseJsonOutput(out.isNone, out.text)
    IN  IF out.raised THEN [raised |-> TRUE, username |-> ""]
        ELSE IF out.isNone \/ out.text = <<>> \/ ~Truthy(data)
                  \/ ~data.v[1].has_username
        THEN [raised |-> FALSE, username |-> ""]
        ELSE [raised |-> FALSE, username |-> data.v[1].username]

\* get_user_repos lines 89-95; with no username it returns [] and
\* get_gitlab_groups (lines 58-63) warns.
GlUserLookup ==
    /\ gl.pc = "user"
    /\ \E o \in RunOutcomes(UserTexts) :
          LET u == GetAuthenticatedUsername(o)
          IN  gl' = IF u.raised THEN Raise(gl, o.kind)
                    ELSE IF u.username = ""
                    THEN [Store(gl, "personal", "personal", <<>>, "no identity")
                            EXCEPT !.pc = "groups", !.listed = Append(@, <<>>)]
                    ELSE [gl EXCEPT !.username = u.username, !.page = 1,
                                    !.pc = "page"]
    /\ calls' = Append(calls, Call("glab", "api user", ""))
    /\ UNCHANGED <<gen, gh, msgs, files, rc, csv, fn>>

\* A test that ends the loop after any page.
IsLastPageAlways(n) == TRUE

\* len(repos_data) < 100
IsLastPage(n) == n < PerPage

\* One iteration of the loop of lines 96-125.
GlUserPage ==
    /\ gl.pc = "page"
    /\ \E o \in RunOutcomes(PageTexts(gl.page)) :
          LET out == RunCommand(o)
              data == ParseJsonOutput(out.isNone, out.text)
          IN  gl' = IF out.raised THEN Raise(gl, o.kind)
                    ELSE IF out.isNone \/ out.text = <<>> \/ ~Truthy(data)
                    THEN [gl EXCEPT !.pc = "filter",
                                    !.pages = Append(@, [page |-> gl.page, n |-> 0])]
                    ELSE [gl EXCEPT
                            !.all_repos_data = @ \o data.v,
                            !.pages = Append(@, [page |-> gl.page, n |-> Len(data.v)]),
                            !.page = IF IsLastPage(Len(data.v)) THEN @ ELSE @ + 1,
                            !.pc = IF IsLastPage(Len(data.v)) THEN "filter" ELSE "page"]
    /\ calls' = Append(calls, Call("glab", "repo list --mine --page", gl.page))
    /\ UNCHANGED <<gen, gh, msgs, files, rc, csv, fn>>

\* get_user_repos lines 127-154, then get_gitlab_groups lines 58-63.
GlUserFilter ==
    /\ gl.pc = "filter"
    /\ LET raws == FilterPersonal(gl.all_repos_data, gl.username)
           repos == [i \in DOMAIN raws |->
                        GlRepoInfo(raws[i], gl.include_languages, gl.enrich)]
           fault == UserFault(gl.all_repos_data, gl.username,
                              gl.include_languages, gl.enrich)
           raised == fault # ""
       IN  /\ gl' = IF raised THEN Raise(gl, fault)
                    ELSE [Store(gl, "personal", "personal", repos,
                                IF repos = <<>> THEN "no items" ELSE "ok")
                            EXCEPT !.pc = "groups", !.listed = Append(@, raws)]
           /\ calls' = IF gl.include_languages
                       THEN calls \o EnrichCallsAll(raws) ELSE calls
    /\ UNCHANGED <<gen, gh, msgs, files, rc, csv, fn>>

\* One iteration of the loop of lines 66-74, with get_group_repos.
GlGroup ==
    /\ gl.pc = "groups"
    /\ gl.idx <= Len(gl.groups)
    /\ \E o \in RunOutcomes(GroupTexts) :
          LET group == gl.groups[gl.idx]
              r == GetGroupRepos(o, gl.include_languages, gl.enrich)
          IN  /\ gl' = IF r.raised THEN Raise(gl, r.exc)
                       ELSE [Store(gl, "group", group, r.repos, Why(o))
                               EXCEPT !.idx = @ + 1, !.listed = Append(@, r.raws)]
              /\ calls' = Append(calls, Call("glab", "repo list --group", group))
                            \o (IF gl.include_languages
                                THEN EnrichCallsAll(r.raws) ELSE <<>>)
    /\ UNCHANGED <<gen, gh, msgs, files, rc, csv, fn>>

\* Line 76.
GlReturn ==
    /\ gl.pc = "groups"
    /\ gl.idx > Len(gl.groups)
    /\ gl' = [gl EXCEPT !.pc = "returned", !.result = gl.all_repos]
    /\ UNCHANGED <<gen, gh, calls, msgs, files, rc, csv, fn>>

(***************************************************************************)
(* get_github_repos (gh), step by step: auth -> owners* -> returned.       *)
(***************************************************************************)
GhEntry(owners, limit) ==
    [pc |-> "auth", owners |-> owners, limit |-> limit, authed |-> FALSE,
     idx |-> 1, all_repos |-> <<>>, attempts |-> <<>>, result |-> <<>>,
     exc |-> ""]

\* Lines 41-43.
GhAuth ==
    /\ gh.pc = "auth"
    /\ \E a \in AuthOutcomes :
          LET r == CheckAuth(a)
          IN  /\ gh' = IF r.raised THEN Raise(gh, a.kind)
                       ELSE IF ~r.ok THEN [gh EXCEPT !.pc = "returned"]
                       ELSE [gh EXCEPT !.authed = TRUE, !.pc = "owners"]
              /\ msgs' = IF ~r.raised /\ ~r.ok
                         THEN msgs \cup {"GitHub authentication required"}
                         ELSE msgs
    /\ calls' = Append(calls, Call("gh", "auth status", ""))
    /\ UNCHANGED <<gen, gl, files, rc, csv, fn>>

\* One iteration of the loop of lines 52-60, with get_owner_repos.
GhOwner ==
    /\ gh.pc = "owners"
    /\ gh.idx <= Len(gh.owners)
    /\ \E o \in RunOutcomes(OwnerTexts) :
          LET owner == gh.owners[gh.idx]
              r == GetOwnerRepos(o)
          IN  gh' = IF r.raised THEN Raise(gh, r.exc)
                    ELSE [Store(gh, "owner", owner, r.repos, Why(o))
                            EXCEPT !.idx = @ + 1]
    /\ calls' = Append(calls, Call("gh", "repo list", gh.owners[gh.idx]))
    /\ UNCHANGED <<gen, gl, msgs, files, rc, csv, fn>>

\* Line 62.
GhReturn ==
    /\ gh.pc = "owners"
    /\ gh.idx > Len(gh.owners)
    /\ gh' = [gh EXCEPT !.pc = "returned", !.result = gh.all_repos]
    /\ UNCHANGED <<gen, gl, calls, msgs, files, rc, csv, fn>>

(***************************************************************************)
(* cli.generate (gen), step by step:                                       *)
(*   start -> config -> check_gitlab -> check_github -> fetch_gitlab ->    *)
(*   in_gitlab -> fetch_github -> in_github -> collected -> render* ->     *)
(*   done; raised: an exception left the command.                          *)
(* opts is the command line: formats <<>>, output "" and "unset" stand for *)
(* an option that was not given.                                           *)
(***************************************************************************)
GenEntry(opts) ==
    [pc |-> "start", opts |-> opts,
     platform |-> opts.platform,
     formats |-> IF opts.formats = <<>> THEN DefaultFormats ELSE opts.formats,
     output |-> IF opts.output = "" THEN DefaultOutput ELSE opts.output,
     include_languages |-> opts.languages = "yes",
     gitlab_groups |-> opts.groups,
     gitlab_mine |-> opts.mine = "yes",
     github_owners |-> opts.owners,
     cfg |-> EmptyCfg, dir_made |-> FALSE,
     gitlab_groups_list |-> <<>>, gitlab_include_mine |-> FALSE,
     github_owners_list |-> <<>>,
     should_fetch_gitlab |-> FALSE, should_fetch_github |-> FALSE,
     all_data |-> <<>>, gitlab_data |-> <<>>, github_data |-> <<>>,
     formats_list |-> <<>>, prefix |-> "", idx |-> 1, writes |-> <<>>,
     checks |-> <<>>, exc |-> ""]

\* Lines 88-89, with utils.ensure_output_directory.
GenEnsureDir ==
    /\ gen.pc = "start"
    /\ \E made \in BOOLEAN :
          /\ gen' = [gen EXCEPT !.dir_made = made,
                                !.pc = IF made THEN "config" ELSE "done"]
          /\ msgs' = IF made THEN msgs
                     ELSE msgs \cup {"Error creating output directory"}
    /\ UNCHANGED <<gl, gh, calls, files, rc, csv, fn>>

\* Lines 92-109.  cfg.get on None is an AttributeError; "x if c else
\* cfg.get(...)" and "m or cfg.get(...)" evaluate it only when the command
\* line left the option empty.
GenConfigure ==
    /\ gen.pc = "config"
    /\ LET cfg == LoadConfig(gen.opts.config_file)
           reads == \/ gen.gitlab_groups = <<>>
                    \/ ~gen.gitlab_mine
                    \/ gen.github_owners = <<>>
           groups == IF gen.gitlab_groups # <<>> THEN gen.gitlab_groups
                     ELSE cfg.groups
           mine == gen.gitlab_mine \/ cfg.include_mine
           owners == IF gen.github_owners # <<>> THEN gen.github_owners
                     ELSE cfg.owners
           gitlab == gen.platform \in {"all", "gitlab"} /\ (groups # <<>> \/ mine)
           github == gen.platform \in {"all", "github"} /\ owners # <<>>
           loaded == [gen EXCEPT !.cfg = cfg]
       IN  IF cfg.isNone /\ reads
           THEN /\ gen' = Raise(loaded, "AttributeError")
                /\ msgs' = msgs
           ELSE /\ gen' = [loaded EXCEPT
                              !.gitlab_groups_list = groups,
                              !.gitlab_include_mine = mine,
                              !.github_owners_list = owners,
                              !.should_fetch_gitlab = gitlab,
                              !.should_fetch_github = github,
                              !.pc = IF gitlab \/ github THEN "check_gitlab"
                                     ELSE "done"]
                /\ msgs' = IF gitlab \/ github THEN msgs
                           ELSE msgs \cup {"No platforms configured"}
    /\ UNCHANGED <<gl, gh, calls, files, rc, csv, fn>>

\* Lines 112-118 and 120-126 without the test of the auth check's result.
GenCheckPresenceOnly(should, tool, name, next) ==
    IF ~should
    THEN /\ gen' = [gen EXCEPT !.pc = next]
         /\ UNCHANGED <<calls, msgs>>
    ELSE \E c \in RunKinds, a \in AuthOutcomes :
            LET cli == CheckCliAvailable(c)
                auth == CheckAuth(a)
                version == Append(calls, Call(tool, "--version", ""))
                present == ~cli.raised /\ cli.ok
                noted == [gen EXCEPT !.checks =
                             Append(@, [tool |-> tool, present |-> present,
                                        authed |-> /\ present
                                                   /\ ~auth.raised
                                                   /\ auth.ok])]
            IN  IF ~present
                THEN /\ gen' = IF cli.raised THEN Raise(noted, c)
                               ELSE [noted EXCEPT !.pc = "done"]
                     /\ calls' = version
                     /\ msgs' = IF cli.raised THEN msgs
                                ELSE msgs \cup {tool \o " CLI not found"}
                ELSE /\ gen' = IF auth.raised THEN Raise(noted, a.kind)
                               ELSE [noted EXCEPT !.pc = next]
                     /\ calls' = Append(version, Call(tool, "auth status", ""))
                     /\ msgs' = msgs

\* Lines 112-118 and 120-126: the presence check, then the auth check.
\* checks keeps, for every platform checked, what the two checks returned
\* (the auth check is not run when the tool is not present).
GenCheck(should, tool, name, next) ==
    IF ~should
    THEN /\ gen' = [gen EXCEPT !.pc = next]
         /\ UNCHANGED <<calls, msgs>>
    ELSE \E c \in RunKinds, a \in AuthOutcomes :
            LET cli == CheckCliAvailable(c)
                auth == CheckAuth(a)
                version == Append(calls, Call(tool, "--version", ""))
                present == ~cli.raised /\ cli.ok
                noted == [gen EXCEPT !.checks =
                             Append(@, [tool |-> tool, present |-> present,
                                        authed |-> /\ present
                                                   /\ ~auth.raised
                                                   /\ auth.ok])]
            IN  IF ~present
                THEN /\ gen' = IF cli.raised THEN Raise(noted, c)
                               ELSE [noted EXCEPT !.pc = "done"]
                     /\ calls' = version
                     /\ msgs' = IF cli.raised THEN msgs
                                ELSE msgs \cup {tool \o " CLI not found"}
                ELSE /\ gen' = IF auth.raised THEN Raise(noted, a.kind)
                               ELSE IF ~auth.ok THEN [noted EXCEPT !.pc = "done"]
                               ELSE [noted EXCEPT !.pc = next]
                     /\ calls' = Append(version, Call(tool, "auth status", ""))
                     /\ msgs' = IF auth.raised \/ auth.ok THEN msgs
                                ELSE msgs \cup {"Error: " \o name
                                                  \o " authentication required"}

GenCheckGitlab ==
    /\ gen.pc = "check_gitlab"
    /\ GenCheck(gen.should_fetch_gitlab, "glab", "GitLab", "check_github")
    /\ UNCHANGED <<gl, gh, files, rc, csv, fn>>

GenCheckGithub ==
    /\ gen.pc = "check_github"
    /\ GenCheck(gen.should_fetch_github, "gh", "GitHub", "fetch_gitlab")
    /\ UNCHANGED <<gl, gh, files, rc, csv, fn>>

\* Lines 129-131: the call of get_gitlab_groups.  The tool's answers to the
\* enrichment calls matter only when include_languages is set.
GenFetchGitlab ==
    /\ gen.pc = "fetch_gitlab"
    /\ IF gen.should_fetch_gitlab
       THEN \E enrich \in IF gen.include_languages
                          THEN EnrichAnswers \ {NoEnrich} ELSE {NoEnrich} :
               /\ gl' = GlEntry(gen.gitlab_groups_list, gen.include_languages,
                                gen.gitlab_include_mine, enrich)
               /\ gen' = [gen EXCEPT !.pc = "in_gitlab"]
               /\ msgs' = msgs \cup {"Fetching GitLab repositories"}
       ELSE /\ gen' = [gen EXCEPT !.pc = "fetch_github"]
            /\ UNCHANGED <<gl, msgs>>
    /\ UNCHANGED <<gh, calls, files, rc, csv, fn>>

\* Lines 131-134: get_gitlab_groups has returned, or raised.
GenGitlabDone ==
    /\ gen.pc = "in_gitlab"
    /\ gl.pc \in {"returned", "raised"}
    /\ gen' = IF gl.pc = "raised" THEN Raise(gen, gl.exc)
              ELSE [gen EXCEPT
                      !.gitlab_data = gl.result,
                      !.all_data = IF gl.result # <<>>
                                   THEN DictPut(@, "gitlab", gl.result) ELSE @,
                      !.pc = "fetch_github"]
    /\ gl' = GlIdle
    /\ UNCHANGED <<gh, calls, msgs, files, rc, csv, fn>>

\* Lines 136-141: the limit is read from the configuration, then
\* get_github_repos is called.
GenFetchGithub ==
    /\ gen.pc = "fetch_github"
    /\ IF ~gen.should_fetch_github
       THEN /\ gen' = [gen EXCEPT !.pc = "collected"]
            /\ UNCHANGED <<gh, msgs>>
       ELSE /\ msgs' = msgs \cup {"Fetching GitHub repositories"}
            /\ IF gen.cfg.isNone
               THEN /\ gen' = Raise(gen, "AttributeError")
                    /\ gh' = gh
               ELSE /\ gen' = [gen EXCEPT !.pc = "in_github"]
                    /\ gh' = GhEntry(gen.github_owners_list, gen.cfg.limit)
    /\ UNCHANGED <<gl, calls, files, rc, csv, fn>>

\* Lines 141-144.
GenGithubDone ==
    /\ gen.pc = "in_github"
    /\ gh.pc \in {"returned", "raised"}
    /\ gen' = IF gh.pc = "raised" THEN Raise(gen, gh.exc)
              ELSE [gen EXCEPT
                      !.github_data = gh.result,
                      !.all_data = IF gh.result # <<>>
                                   THEN DictPut(@, "github", gh.result) ELSE @,
                      !.pc = "collected"]
    /\ gh' = GhIdle
    /\ UNCHANGED <<gl, calls, msgs, files, rc, csv, fn>>

\* Lines 146-160.
GenCollected ==
    /\ gen.pc = "collected"
    /\ IF gen.all_data = <<>>
       THEN /\ gen' = [gen EXCEPT !.pc = "done"]
            /\ msgs' = msgs \cup {"No repository data collected"}
       ELSE /\ gen' = [gen EXCEPT
                         !.formats_list = IF gen.formats # <<>> THEN gen.formats
                                          ELSE <<"markdown">>,
                         !.prefix = Prefix(gen.all_data),
                         !.idx = 1,
                         !.pc = "render"]
            /\ msgs' = msgs \cup {"Generating reports"}
    /\ UNCHANGED <<gl, gh, calls, files, rc, csv, fn>>

\* One iteration of the loop of lines 162-174, with the renderer it calls.
GenRender ==
    /\ gen.pc = "render"
    /\ gen.idx <= Len(gen.formats_list)
    /\ LET fmt == gen.formats_list[gen.idx]
           output_file == OutputFile(gen.output, gen.prefix, fmt)
       IN  \E w \in WriteOutcomes :
           \E p \in IF fmt = "markdown" /\ w = "ok" THEN PrettierOutcomes
                    ELSE {"absent"} :
              /\ files' =
                    (CASE fmt = "markdown" ->
                            FormatMarkdown(files, gen.all_data, output_file, w)
                       [] fmt = "json" ->
                            FormatJson(files, gen.all_data, output_file, w)
                       [] fmt = "csv" ->
                            FormatCsv(files, gen.all_data, output_file, w)
                       [] OTHER ->
                            FormatHtml(files, gen.all_data, output_file, w))
              /\ calls' = IF fmt = "markdown" /\ w = "ok"
                          THEN calls \o PrettierCalls(output_file, p)
                          ELSE calls
              /\ msgs' = (msgs \cup (IF w = "ok" THEN {fmt \o " report saved"}
                                      ELSE {}))
                            \cup (IF Rendered(fmt, w, p) THEN {}
                                  ELSE {"Error writing " \o fmt \o " file"})
              /\ gen' = [gen EXCEPT
                            !.idx = @ + 1,
                            !.writes = Append(@, [fmt |-> fmt, file |-> output_file,
                                                  outcome |-> w,
                                                  returned |-> Rendered(fmt, w, p)])]
    /\ UNCHANGED <<gl, gh, rc, csv, fn>>

\* Line 176.
GenSuccess ==
    /\ gen.pc = "render"
    /\ gen.idx > Len(gen.formats_list)
    /\ gen' = [gen EXCEPT !.pc = "done"]
    /\ msgs' = msgs \cup {"Reports generated successfully"}
    /\ UNCHANGED <<gl, gh, calls, files, rc, csv, fn>>

(***************************************************************************)
(* The adapters on their own: one call of get_gitlab_groups or of          *)
(* get_github_repos with arbitrary arguments.                              *)
(***************************************************************************)
GroupNames == {"team", "personal"}

OwnerNames == {"octo", "acme"}

\* Every enrichment answer is tried on the short requests; the longer
\* ones run without enrichment or with one that succeeds.
AdapterEnrichAnswers(groups) ==
    IF Len(groups) <= 1 THEN EnrichAnswers
    ELSE {NoEnrich, [langs |-> LangsOk, stats |-> StatsOk]}

InitAdapters ==
    /\ gen = GenIdle
    /\ calls = <<>>
    /\ msgs = {}
    /\ files = <<>>
    /\ csv = CsvIdle
    /\ fn = FnIdle
    /\ rc = RcIdle
    /\ \/ /\ gh = GhIdle
          /\ \E groups \in SeqsUpTo(GroupNames, MaxScopes),
                include_mine \in BOOLEAN :
                \E enrich \in AdapterEnrichAnswers(groups) :
                    gl = GlEntry(groups, enrich # NoEnrich, include_mine, enrich)
       \/ /\ gl = GlIdle
          /\ \E owners \in SeqsUpTo(OwnerNames, MaxScopes) :
                gh = GhEntry(owners, DefaultLimit)

NextAdapters ==
    \/ GlAuth
    \/ GlUserLookup
    \/ GlUserPage
    \/ GlUserFilter
    \/ GlGroup
    \/ GlReturn
    \/ GhAuth
    \/ GhOwner
    \/ GhReturn

SpecAdapters == InitAdapters /\ [][NextAdapters]_vars

(***************************************************************************)
(* The command: one invocation of generate on any of the command lines and *)
(* configuration files below, in an empty output directory.                *)
(***************************************************************************)
SampleCfg == Cfg(<<"team">>, TRUE, <<"octo">>, 50, "reports", <<"json">>, TRUE)

OwnersCfg == Cfg(<<>>, FALSE, <<"acme">>, DefaultLimit, "", <<>>, FALSE)

ConfigFiles ==
    {MissingFile, EmptyFile, MappingFile(SampleCfg), MappingFile(OwnersCfg)}

Platforms == {"all", "gitlab", "github"}

FormatOptions ==
    {<<>>, <<"json", "csv">>, <<"csv", "markdown", "csv">>, <<"html", "json">>}

\* The scope options: groups, personal inclusion, owners.
ScopeOptions ==
    {[groups |-> <<>>, mine |-> "unset", owners |-> <<>>],
     [groups |-> <<>>, mine |-> "no", owners |-> <<>>],
     [groups |-> <<"team">>, mine |-> "unset", owners |-> <<>>],
     [groups |-> <<>>, mine |-> "yes", owners |-> <<"octo">>],
     [groups |-> <<"team">>, mine |-> "yes", owners |-> <<"octo">>]}

\* Command lines that vary the platform, the scopes and the configuration.
ScopeInvocations ==
    {[platform |-> p, formats |-> <<>>, output |-> "", languages |-> "unset",
      groups |-> s.groups, mine |-> s.mine, owners |-> s.owners,
      config_file |-> c] :
        p \in Platforms, s \in ScopeOptions, c \in ConfigFiles}

\* Command lines that vary the formats, the directory and the enrichment.
ReportInvocations ==
    {[platform |-> "all", formats |-> f, output |-> o, languages |-> l,
      groups |-> <<"team">>, mine |-> "unset", owners |-> <<"octo">>,
      config_file |-> c] :
        f \in FormatOptions, o \in {"", "out"}, l \in {"unset", "yes"},
        c \in {MissingFile, MappingFile(SampleCfg)}}

Invocations == ScopeInvocations \cup ReportInvocations

Init ==
    /\ \E opts \in Invocations : gen = GenEntry(opts)
    /\ gl = GlIdle
    /\ gh = GhIdle
    /\ calls = <<>>
    /\ msgs = {}
    /\ files = <<>>
    /\ rc = RcIdle
    /\ csv = CsvIdle
    /\ fn = FnIdle

Next ==
    \/ GenEnsureDir
    \/ GenConfigure
    \/ GenCheckGitlab
    \/ GenCheckGithub
    \/ GenFetchGitlab
    \/ GenGitlabDone
    \/ GenFetchGithub
    \/ GenGithubDone
    \/ GenCollected
    \/ GenRender
    \/ GenSuccess
    \/ GlAuth
    \/ GlUserLookup
    \/ GlUserPage
    \/ GlUserFilter
    \/ GlGroup
    \/ GlReturn
    \/ GhAuth
    \/ GhOwner
    \/ GhReturn

Spec == Init /\ [][Next]_vars

(***************************************************************************)
(* Harness of run_command: one call on an arbitrary outcome.               *)
(***************************************************************************)
RcAlphabet == {SP, NL, JUNK, JList(<<>>)}

RcTexts == SeqsUpTo(RcAlphabet, MaxTextLen)

\* A program that exits non-zero may have printed too; one that could not be
\* started printed nothing.
RcOutcomes ==
    {Outcome(k, t) : k \in {"exit0", "nonzero"}, t \in RcTexts}
        \cup {Outcome(k, <<>>) : k \in {"absent", "oserror"}}


InitRun ==
    /\ gen = GenIdle
    /\ gl = GlIdle
    /\ gh = GhIdle
    /\ calls = <<>>
    /\ msgs = {}
    /\ files = <<>>
    /\ csv = CsvIdle
    /\ fn = FnIdle
    /\ rc = RcIdle

RunCommandCall ==
    /\ ~rc.called
    /\ \E o \in RcOutcomes :
          rc' = [called |-> TRUE, outcome |-> o, result |-> RunCommand(o)]
    /\ UNCHANGED <<gen, gl, gh, calls, msgs, files, csv, fn>>

NextRun == RunCommandCall

SpecRun == InitRun /\ [][NextRun]_vars

(***************************************************************************)
(* Harness of format_csv: one call on an aggregate of one platform and one *)
(* organization whose repositories hold any combination of the optional    *)
(* keys.                                                                   *)
(***************************************************************************)
MaxRows == 2

CsvLanguages == {<<>>, <<<<"Rust", 400>>, <<"Go", 600>>>>}

CsvTopics == {<<>>, <<"a", "b">>}

CsvRepos ==
    {[path |-> "octo/x", namespace |-> "octo", size_bytes |-> 0,
      primary_language |-> IF "primary_language" \in ks THEN pl ELSE "",
      languages |-> IF "languages" \in ks THEN ls ELSE <<>>,
      topics |-> IF "topics" \in ks THEN ts ELSE <<>>,
      keys |-> ks] :
        ks \in SUBSET OptionalKeys, pl \in {"", "Go"},
        ls \in CsvLanguages, ts \in CsvTopics}

InitCsv ==
    /\ \E repos \in SeqsUpTo(CsvRepos, MaxRows), w \in WriteOutcomes :
          /\ repos # <<>>
          /\ csv = [called |-> FALSE,
                    data |-> <<[k |-> "github",
                                v |-> <<[k |-> "octo", v |-> repos]>>]>>,
                    write |-> w, ok |-> FALSE]
    /\ gen = GenIdle
    /\ gl = GlIdle
    /\ gh = GhIdle
    /\ rc = RcIdle
    /\ fn = FnIdle
    /\ calls = <<>>
    /\ msgs = {}
    /\ files = <<>>

FormatCsvCall ==
    /\ ~csv.called
    /\ csv' = [csv EXCEPT !.called = TRUE, !.ok = (csv.write = "ok")]
    /\ files' = FormatCsv(files, csv.data, "out.csv", csv.write)
    /\ msgs' = msgs \cup {IF csv.write = "ok" THEN "CSV report saved"
                          ELSE "Error writing CSV file"}
    /\ UNCHANGED <<gen, gl, gh, rc, calls, fn>>

NextCsv == FormatCsvCall

SpecCsv == InitCsv /\ [][NextCsv]_vars

(***************************************************************************)
(* C1: in every row format_csv writes, the primary_language column is a    *)
(* language of highest percentage whenever the repository's                *)
(* primary_language is empty -- the key present with an empty value, or    *)
(* missing -- and its languages mapping is non-empty.                      *)
(***************************************************************************)
CsvWritten == csv.called /\ csv.ok /\ DictHas(files, "out.csv")

HighestLanguages(languages) ==
    {languages[i][1] : i \in {k \in DOMAIN languages :
        \A m \in DOMAIN languages : languages[m][2] <= languages[k][2]}}

C1_CsvPrimaryLanguageFallback ==
    CsvWritten =>
        LET repos == AllRepos(csv.data)
            rows == DictGet(files, "out.csv").rows
        IN  /\ Len(rows) = Len(repos)
            /\ \A i \in DOMAIN repos :
                  (repos[i].primary_language = "" /\ repos[i].languages # <<>>)
                      => rows[i].primary_language \in HighestLanguages(repos[i].languages)

(***************************************************************************)
(* C10: run_command never raises to its caller: on exit 0 it returns the   *)
(* captured output without its surrounding whitespace, and on every        *)
(* failure (non-zero exit, executable absent, any other error of the       *)
(* execution) it returns None.                                             *)
(***************************************************************************)
C10_NeverRaises ==
    rc.called =>
        /\ ~rc.result.raised
        /\ rc.outcome.kind = "exit0" =>
              /\ ~rc.result.isNone
              /\ \E i, j \in 0..Len(rc.outcome.stdout) :
                    /\ i + j + Len(rc.result.text) = Len(rc.outcome.stdout)
                    /\ \A k \in 1..i : IsSpace(rc.outcome.stdout[k])
                    /\ \A k \in 1..j :
                          IsSpace(rc.outcome.stdout[Len(rc.outcome.stdout) + 1 - k])
                    /\ rc.result.text =
                          SubSeq(rc.outcome.stdout, i + 1, Len(rc.outcome.stdout) - j)
              /\ rc.result.text # <<>> =>
                    /\ ~IsSpace(rc.result.text[1])
                    /\ ~IsSpace(rc.result.text[Len(rc.result.text)])
        /\ rc.outcome.kind # "exit0" => rc.result.isNone

(***************************************************************************)
(* Observations on an adapter's frame.                                     *)
(***************************************************************************)
AttemptScopes(f) == [i \in DOMAIN f.attempts |-> f.attempts[i].scope]

GlExpected == (IF gl.include_mine THEN <<"personal">> ELSE <<>>) \o gl.groups

\* The arguments of the listing calls made so far, in order.
ListingArgs(cmd) ==
    LET IsListing(c) == c.cmd = cmd
        made == SelectSeq(calls, IsListing)
    IN  [i \in DOMAIN made |-> made[i].arg]

(***************************************************************************)
(* C3: in get_gitlab_groups and get_github_repos every requested scope is  *)
(* attempted exactly once and in the requested order, the personal scope   *)
(* first: the attempts made so far are a prefix of the request, and they   *)
(* are the whole request when the loop returns; a scope whose listing      *)
(* fails (tool absent, non-zero exit, malformed JSON) or is empty is       *)
(* warned about and never ends the function by an exception, and the       *)
(* entries of the scopes that yielded repositories are kept and returned.  *)
(***************************************************************************)
C3Frame(f, expected, listed) ==
    f.pc # "idle" =>
        /\ IsPrefix(AttemptScopes(f), expected)
        /\ \A i \in DOMAIN f.attempts :
              /\ f.attempts[i].repos = <<>> <=> f.attempts[i].warned
              /\ f.attempts[i].repos # <<>> => DictHas(f.all_repos, f.attempts[i].scope)
        /\ f.pc = "raised" => f.exc = "oserror"
        /\ f.pc = "returned" /\ f.authed =>
              /\ AttemptScopes(f) = expected
              /\ listed
              /\ f.result = f.all_repos

C3_EveryScopeAttempted ==
    /\ C3Frame(gl, GlExpected, ListingArgs("repo list --group") = gl.groups)
    /\ C3Frame(gh, gh.owners, ListingArgs("repo list") = gh.owners)

C3_Witness ==
    /\ gl.pc = "returned"
    /\ Len(gl.attempts) = 3
    /\ gl.attempts[1].repos # <<>>
    /\ gl.attempts[2].why \in {"absent", "nonzero", "malformed"}
    /\ gl.attempts[3].repos # <<>>
    /\ DictKeys(gl.result) = {gl.attempts[1].scope, gl.attempts[3].scope}

(***************************************************************************)
(* C7: after get_gitlab_groups or get_github_repos returns, every          *)
(* requested scope that yielded at least one repository has, under its     *)
(* name, exactly the repositories a listing of that scope returned, in the *)
(* tool's order -- also when a group is named "personal" and the personal  *)
(* repositories are included, and when a name is requested twice.          *)
(***************************************************************************)
C7Frame(f) ==
    f.pc = "returned" /\ f.authed =>
        \A i \in DOMAIN f.attempts :
            f.attempts[i].repos # <<>> =>
                /\ DictHas(f.result, f.attempts[i].scope)
                /\ \E j \in DOMAIN f.attempts :
                      /\ f.attempts[j].kind = f.attempts[i].kind
                      /\ f.attempts[j].scope = f.attempts[i].scope
                      /\ DictGet(f.result, f.attempts[i].scope) = f.attempts[j].repos

C7_ScopeHoldsItsRepos == C7Frame(gl) /\ C7Frame(gh)

(***************************************************************************)
(* C9: when get_user_repos has returned, its result is exactly the mapped  *)
(* items of the accumulated listing whose namespace path is the resolved   *)
(* username and whose namespace kind is "user", in listing order; and when *)
(* the identity lookup fails the result is empty and no listing call was   *)
(* made.                                                                   *)
(***************************************************************************)
UserReposReturned == gl.pc = "groups" /\ gl.include_mine /\ gl.idx = 1

OwnedByUser(i) ==
    /\ gl.all_repos_data[i].namespace.path = gl.username
    /\ gl.all_repos_data[i].namespace.kind = "user"

\* The number of the user's own items among the first i of the listing.
OwnedUpTo(i) == Cardinality({j \in 1..i : OwnedByUser(j)})

C9_OnlyUserKindItems ==
    UserReposReturned =>
        LET a == gl.attempts[1]
        IN  /\ a.why = "no identity" =>
                  /\ a.repos = <<>>
                  /\ ListingArgs("repo list --mine --page") = <<>>
            /\ a.why # "no identity" =>
                  /\ gl.username \in Usernames
                  /\ Len(a.repos) = OwnedUpTo(Len(gl.all_repos_data))
                  /\ \A i \in DOMAIN gl.all_repos_data :
                        OwnedByUser(i) =>
                            /\ a.repos[OwnedUpTo(i)].path =
                                  gl.all_repos_data[i].path_with_namespace
                            /\ a.repos[OwnedUpTo(i)].namespace =
                                  gl.all_repos_data[i].namespace.name

C9_Witness ==
    /\ UserReposReturned
    /\ gl.attempts[1].repos # <<>>
    /\ Len(gl.attempts[1].repos) < Len(gl.all_repos_data)
    /\ \E i \in DOMAIN gl.all_repos_data :
          /\ gl.all_repos_data[i].namespace.path = gl.username
          /\ gl.all_repos_data[i].namespace.kind = "group"
          /\ \A k \in DOMAIN gl.attempts[1].repos :
                gl.attempts[1].repos[k].path #
                    gl.all_repos_data[i].path_with_namespace

(***************************************************************************)
(* C2: when get_gitlab_groups or get_github_repos has returned, every key  *)
(* of the returned mapping maps to a non-empty list; a scope whose         *)
(* listings all yielded nothing has no entry; when no scope yielded        *)
(* anything the mapping is empty, and generate then adds no entry for the  *)
(* platform: every platform of the aggregate holds the non-empty mapping   *)
(* its adapter returned.                                                   *)
(***************************************************************************)
C2Frame(f) ==
    f.pc = "returned" =>
        /\ \A i \in DOMAIN f.result : f.result[i].v # <<>>
        /\ \A i \in DOMAIN f.attempts :
              (\A j \in DOMAIN f.attempts :
                  f.attempts[j].scope = f.attempts[i].scope
                      => f.attempts[j].repos = <<>>)
                  => ~DictHas(f.result, f.attempts[i].scope)
        /\ (\A i \in DOMAIN f.attempts : f.attempts[i].repos = <<>>)
              => f.result = <<>>

C2Aggregate ==
    gen.pc # "idle" =>
        /\ gen.gitlab_data = <<>> => ~DictHas(gen.all_data, "gitlab")
        /\ gen.github_data = <<>> => ~DictHas(gen.all_data, "github")
        /\ \A i \in DOMAIN gen.all_data :
              /\ gen.all_data[i].v # <<>>
              /\ gen.all_data[i].v = IF gen.all_data[i].k = "gitlab"
                                     THEN gen.gitlab_data ELSE gen.github_data
              /\ \A j \in DOMAIN gen.all_data[i].v : gen.all_data[i].v[j].v # <<>>

C2_NoEmptyEntries == C2Frame(gl) /\ C2Frame(gh) /\ C2Aggregate

C2_Witness ==
    /\ gen.pc = "render"
    /\ gen.should_fetch_gitlab
    /\ gen.gitlab_data = <<>>
    /\ ListingArgs("repo list --group") # <<>>
    /\ DictKeys(gen.all_data) = {"github"}

(***************************************************************************)
(* C4: when neither the command line nor the configuration gives a GitLab  *)
(* group, personal inclusion or a GitHub owner for the selected platforms, *)
(* generate (once the output directory exists) ends by emitting "No        *)
(* platforms configured", having invoked no external tool and written no   *)
(* file.                                                                   *)
(***************************************************************************)
NoScopesConfigured ==
    LET cfg == LoadConfig(gen.opts.config_file)
    IN  /\ \/ gen.opts.platform = "github"
           \/ /\ gen.opts.groups = <<>>
              /\ gen.opts.mine # "yes"
              /\ cfg.groups = <<>>
              /\ ~cfg.include_mine
        /\ \/ gen.opts.platform = "gitlab"
           \/ gen.opts.owners = <<>> /\ cfg.owners = <<>>

C4_NoPlatformsConfigured ==
    (gen.pc # "idle" /\ NoScopesConfigured) =>
        /\ calls = <<>>
        /\ files = <<>>
        /\ gen.pc \in {"start", "config", "done"}
        /\ (gen.pc = "done" /\ gen.dir_made) => "No platforms configured" \in msgs

(***************************************************************************)
(* C5: once generate has a non-empty aggregate, the renderers of the       *)
(* requested formats are attempted one after the other in the requested    *)
(* order, all of them by the time the command ends; a renderer whose write *)
(* fails returns false and no exception leaves the loop; and a file an     *)
(* earlier renderer wrote is still there after a later renderer failed.    *)
(***************************************************************************)
Rendering == gen.pc # "idle" /\ gen.formats_list # <<>>

Configured == gen.pc \in {"check_gitlab", "check_github", "fetch_gitlab",
                          "in_gitlab", "fetch_github", "in_github",
                          "collected", "render"}

C6_CliThenConfig ==
    LET cfg == LoadConfig(gen.opts.config_file)
    IN  Configured =>
            /\ gen.gitlab_groups_list =
                  IF gen.opts.groups # <<>> THEN gen.opts.groups ELSE cfg.groups
            /\ gen.github_owners_list =
                  IF gen.opts.owners # <<>> THEN gen.opts.owners ELSE cfg.owners
            /\ gen.gitlab_include_mine =
                  IF gen.opts.mine # "unset" THEN gen.opts.mine = "yes"
                  ELSE cfg.include_mine
            /\ gen.output =
                  IF gen.opts.output # "" THEN gen.opts.output
                  ELSE IF cfg.output_directory # "" THEN cfg.output_directory
                  ELSE DefaultOutput
            /\ gen.include_languages =
                  IF gen.opts.languages # "unset" THEN gen.opts.languages = "yes"
                  ELSE cfg.include_languages
            /\ gen.pc = "render" =>
                  gen.formats_list =
                      IF gen.opts.formats # <<>> THEN gen.opts.formats
                      ELSE IF cfg.output_formats # <<>> THEN cfg.output_formats
                      ELSE DefaultFormats

(***************************************************************************)
(* C8: with a non-empty aggregate, every file generate writes is the file  *)
(* of a requested format in the output directory, named after the single   *)
(* platform of the aggregate (capitalized for markdown, lower-case for     *)
(* json, csv and html) or after "All-Platforms" (lower-cased likewise)     *)
(* when both platforms are in it; and when every write succeeded the       *)
(* directory holds exactly one file per distinct requested format.         *)
(***************************************************************************)
ExpectedStem(fmt) ==
    LET both == DictKeys(gen.all_data) = {"gitlab", "github"}
        only == IF DictKeys(gen.all_data) = {"gitlab"} THEN "gitlab" ELSE "github"
    IN  IF fmt = "markdown"
        THEN (IF both THEN "All-Platforms"
              ELSE IF only = "gitlab" THEN "Gitlab" ELSE "Github")
                 \o "-Repository-Summary.md"
        ELSE (IF both THEN "all-platforms" ELSE only)
                 \o "-repository-summary." \o fmt

ExpectedFile(fmt) == gen.output \o "/" \o ExpectedStem(fmt)

C8_OneFilePerFormat ==
    Rendering =>
        /\ gen.dir_made
        /\ \A i \in DOMAIN gen.writes :
              gen.writes[i].file = ExpectedFile(gen.writes[i].fmt)
        /\ DictKeys(files) \subseteq
              {ExpectedFile(gen.formats_list[i]) : i \in DOMAIN gen.formats_list}
        /\ (gen.pc = "done"
              /\ \A i \in DOMAIN gen.writes : gen.writes[i].outcome = "ok") =>
              /\ DictKeys(files) =
                    {ExpectedFile(gen.formats_list[i]) : i \in DOMAIN gen.formats_list}
              /\ Len(files) = Cardinality(Range(gen.formats_list))
              /\ \A i \in DOMAIN gen.formats_list :
                    DictGet(files, ExpectedFile(gen.formats_list[i])).format
                        = gen.formats_list[i]

C8_Witness ==
    /\ gen.pc = "done"
    /\ Len(gen.writes) = 3
    /\ \A i \in DOMAIN gen.writes : gen.writes[i].outcome = "ok"
    /\ Len(files) = 2
    /\ DictKeys(gen.all_data) = {"gitlab", "github"}

(***************************************************************************)
(* The pure functions, called once on an input: fn holds the function's    *)
(* name, its argument and, after the call, what it returned.               *)
(***************************************************************************)
\* Digits that make the fraction 0, tiny, a quarter, a half, three quarters
\* and almost one.
SizeDigits == {0, 1, 256, 512, 768, 1023}

\* Sizes of one to five digits (below 1024 TB), and sizes of six digits
\* whose top digit keeps them below 2^53.
SizeInputs ==
    {NoneVal, PyInt(0)}
      \cup {[t |-> "int", v |-> ds] : ds \in {d \in SeqsUpTo(SizeDigits, Len(Units)) :
                                                d # <<>> /\ d[Len(d)] # 0}}
      \cup {[t |-> "int", v |-> Append(ds, top)] :
                ds \in [1..Len(Units) -> {0, 512, 1023}], top \in {1, 7}}

\* Raw records of the two platforms in every shape of the fields the
\* mapping reads with a default.
DiskUsages == {0, 1, 10, 1023, 1024, 1536, 1048576, 2097151}

RawFlags == {JMissing(FALSE), JNullField(FALSE), JValue(TRUE), JValue(FALSE)}

GhShapes ==
    {[GhRaw("cli", login, "Go", <<<<"Go", 3>>, <<"C", 1>>>>, <<"tools">>, 0)
         EXCEPT !.diskUsage = du, !.isPrivate = ip] :
        login \in {"octo", ""},
        du \in {JMissing(0), JNullField(0)} \cup {JValue(d) : d \in DiskUsages},
        ip \in RawFlags}

RawVisibilities ==
    {JMissing(""), JNullField(""), JValue("public"), JValue("private"), JValue("internal")}

GlShapes ==
    {[GlRaw("alice/app", ns, 7) EXCEPT !.visibility = vis, !.statistics = st] :
        ns \in {Ns("alice", "user", "Alice"), NsMissing, NsNull},
        vis \in RawVisibilities,
        st \in {[present |-> FALSE, repository_size |-> 0],
                [present |-> TRUE, repository_size |-> 2048]}}

\* Language byte counts: mappings of up to MaxLangs languages, the empty
\* mapping and the all-zero mappings among them.  The counts make exact
\* ties (1 of 16 is 6.25%) and thirds.
MaxLangs == 3

LangNames == <<"Go", "Rust", "C", "Shell", "Make">>

LangCounts == {0, 1, 2, 3, 7, 15, 2000}

LangMaps ==
    UNION {{[i \in 1..n |-> <<LangNames[i], c[i]>>] : c \in [1..n -> LangCounts]} :
              n \in 0..MaxLangs}

GhLangShapes ==
    {GhRaw("cli", "octo", "Go", m, <<>>, 10) : m \in LangMaps}

LanguagesAnswers == {Outcome("exit0", <<JObj(m)>>) : m \in LangMaps}

\* Runs of the auth-status subcommand: each stream empty, holding the
\* marker, or holding other text, under either exit status; the tool absent;
\* the tool not executable.
AuthStreams == {<<>>, <<AuthMarker>>, <<"not logged in">>}

AuthRuns ==
    {[kind |-> k, stdout |-> out, stderr |-> err] :
        k \in {"exit0", "nonzero"}, out \in AuthStreams, err \in AuthStreams}
      \cup {[kind |-> k, stdout |-> <<>>, stderr |-> <<>>] : k \in {"absent", "oserror"}}

AuthChecks == {"check_gitlab_auth", "check_github_auth"}

\* Date strings: years before 1000, a common year and a leap year; months
\* and days in and out of range; times of day on and off the 24-hour
\* clock, the leap second among them.
DateYears == {999, 2023, 2024}

DateMonths == {0, 1, 2, 12, 13}

DateDays == {0, 1, 28, 29, 30, 31, 32}

TimesOfDay == {<<10, 30, 0>>, <<23, 59, 59>>, <<23, 59, 60>>, <<24, 0, 0>>, <<12, 60, 0>>}

DateInputs ==
    {NoDate, EmptyStr, OtherStr(TRUE), OtherStr(FALSE)}
      \cup {DateStr(y, m, d, p, "", 0, 0, 0, "") :
                y \in DateYears, m \in DateMonths, d \in DateDays, p \in BOOLEAN}
      \cup {DateStr(y, m, d, p, sep, t[1], t[2], t[3], z) :
                y \in DateYears, m \in DateMonths, d \in DateDays, p \in BOOLEAN,
                sep \in {"T", "t", " "}, t \in TimesOfDay, z \in {"", "Z", "+02:00"}}

\* Listing documents of a shape the adapters do not expect: an object
\* where the list should be, and lists whose records have a sub-object
\* missing or null.
ErrorDoc == JObj(<<[message |-> "404 Group Not Found"]>>)

glNullNs == GlRaw("x/null", NsNull, 16)

ghNullDisk == [ghCli EXCEPT !.diskUsage = JNullField(0)]

ghBare ==
    [ghCli EXCEPT !.owner = [present |-> FALSE, login |-> ""],
                  !.primaryLanguage = [present |-> FALSE, name |-> ""],
                  !.languages = [present |-> FALSE, nodes |-> <<>>],
                  !.repositoryTopics = [present |-> FALSE, nodes |-> <<>>],
                  !.isPrivate = JMissing(FALSE),
                  !.diskUsage = JMissing(0)]

GroupShapes ==
    {Outcome("exit0", <<doc>>) :
        doc \in {ErrorDoc, JNull, JList(<<glSvc, glOrphan>>), JList(<<glSvc, glNullNs>>)}}

OwnerShapes ==
    {Outcome("exit0", <<doc>>) :
        doc \in {ErrorDoc, JNull, JList(<<ghCli, ghBare>>), JList(<<ghCli, ghNullDisk>>)}}

UserShapes == {<<glApp, glOrphan>>, <<glApp, glNullNs>>, <<glNullNs>>}

\* What a call that raised returns to the harness.
FnRaised == [raised |-> TRUE]

FnFrame(op, input) == [op |-> op, input |-> input, called |-> FALSE]

FnReturn(result) ==
    [op |-> fn.op, input |-> fn.input, called |-> TRUE, result |-> result]

FnOthersIdle ==
    /\ gen = GenIdle
    /\ gl = GlIdle
    /\ gh = GhIdle
    /\ rc = RcIdle
    /\ csv = CsvIdle
    /\ calls = <<>>
    /\ msgs = {}
    /\ files = <<>>

InitPure ==
    /\ \/ \E x \in SizeInputs : fn = FnFrame("format_size", x)
       \/ \E x \in GhShapes \cup GhLangShapes :
             fn = FnFrame("github.extract_repo_info", x)
       \/ \E x \in LanguagesAnswers : fn = FnFrame("gitlab.get_repo_languages", x)
       \/ \E op \in AuthChecks, x \in AuthRuns : fn = FnFrame(op, x)
       \/ \E x \in DateInputs : fn = FnFrame("format_date", x)
       \/ \E x \in GroupShapes : fn = FnFrame("gitlab.get_group_repos", x)
       \/ \E x \in OwnerShapes : fn = FnFrame("github.get_owner_repos", x)
       \/ \E x \in UserShapes : fn = FnFrame("gitlab.get_user_repos", x)
       \/ \E x \in GlShapes : fn = FnFrame("gitlab.extract_repo_info", x)
    /\ FnOthersIdle

FormatSizeCall ==
    /\ fn.op = "format_size" /\ ~fn.called
    /\ fn' = FnReturn(FormatSize(fn.input))
    /\ UNCHANGED <<gen, gl, gh, calls, msgs, files, rc, csv>>

GhExtractCall ==
    /\ fn.op = "github.extract_repo_info" /\ ~fn.called
    /\ fn' = FnReturn(IF GhExtractRaises(fn.input) THEN FnRaised
                      ELSE [raised |-> FALSE, info |-> GhExtractRepoInfo(fn.input)])
    /\ UNCHANGED <<gen, gl, gh, calls, msgs, files, rc, csv>>

GlExtractCall ==
    /\ fn.op = "gitlab.extract_repo_info" /\ ~fn.called
    /\ fn' = FnReturn(IF GlExtractRaises(fn.input) THEN FnRaised
                      ELSE [raised |-> FALSE, info |-> GlExtractRepoInfo(fn.input)])
    /\ UNCHANGED <<gen, gl, gh, calls, msgs, files, rc, csv>>

GetRepoLanguagesCall ==
    /\ fn.op = "gitlab.get_repo_languages" /\ ~fn.called
    /\ fn' = FnReturn(GetRepoLanguages(fn.input))
    /\ UNCHANGED <<gen, gl, gh, calls, msgs, files, rc, csv>>

CheckAuthCall ==
    /\ fn.op \in AuthChecks /\ ~fn.called
    /\ fn' = FnReturn(CheckAuth(AuthOutcomeOf(fn.input)))
    /\ UNCHANGED <<gen, gl, gh, calls, msgs, files, rc, csv>>

FormatDateCall ==
    /\ fn.op = "format_date" /\ ~fn.called
    /\ \E padsYear \in BOOLEAN : fn' = FnReturn(FormatDate(fn.input, padsYear))
    /\ UNCHANGED <<gen, gl, gh, calls, msgs, files, rc, csv>>

\* The listing functions, without enrichment, on one answer of the tool.
GetGroupReposCall ==
    /\ fn.op = "gitlab.get_group_repos" /\ ~fn.called
    /\ fn' = FnReturn(GetGroupRepos(fn.input, FALSE, NoEnrich))
    /\ UNCHANGED <<gen, gl, gh, calls, msgs, files, rc, csv>>

GetOwnerReposCall ==
    /\ fn.op = "github.get_owner_repos" /\ ~fn.called
    /\ fn' = FnReturn(GetOwnerRepos(fn.input))
    /\ UNCHANGED <<gen, gl, gh, calls, msgs, files, rc, csv>>

\* The loop of get_user_repos, lines 129-152, over an accumulated listing.
GetUserReposCall ==
    /\ fn.op = "gitlab.get_user_repos" /\ ~fn.called
    /\ fn' = FnReturn(
          IF UserFault(fn.input, "alice", FALSE, NoEnrich) # "" THEN FnRaised
          ELSE [raised |-> FALSE,
                repos |-> LET raws == FilterPersonal(fn.input, "alice")
                          IN  [i \in DOMAIN raws |-> GlExtractRepoInfo(raws[i])]])
    /\ UNCHANGED <<gen, gl, gh, calls, msgs, files, rc, csv>>

NextPure ==
    \/ FormatSizeCall
    \/ GetGroupReposCall
    \/ GetOwnerReposCall
    \/ GetUserReposCall
    \/ FormatDateCall
    \/ CheckAuthCall
    \/ GetRepoLanguagesCall
    \/ GhExtractCall
    \/ GlExtractCall

SpecPure == InitPure /\ [][NextPure]_vars

(***************************************************************************)
(* Arithmetic on digit sequences, to state bounds on sizes that an         *)
(* integer of the checker cannot hold.                                     *)
(***************************************************************************)
RECURSIVE BigTimesCarry(_, _, _)
BigTimesCarry(ds, m, carry) ==
    IF ds = <<>> THEN PyDigits(carry)
    ELSE LET t == m * Head(ds) + carry
         IN  <<t % Kibi>> \o BigTimesCarry(Tail(ds), m, t \div Kibi)

BigTimes(ds, m) == IF m = 0 THEN <<>> ELSE BigTimesCarry(ds, m, 0)

\* n * 1024^k
BigShifted(n, k) == IF n = 0 THEN <<>> ELSE [i \in 1..k |-> 0] \o PyDigits(n)

RECURSIVE BigLeq(_, _)
BigLeq(a, b) ==
    IF Len(a) # Len(b) THEN Len(a) < Len(b)
    ELSE IF a = <<>> THEN TRUE
    ELSE IF a[Len(a)] # b[Len(b)] THEN a[Len(a)] < b[Len(b)]
    ELSE BigLeq(SubSeq(a, 1, Len(a) - 1), SubSeq(b, 1, Len(b) - 1))

\* |10 * v / 1024^k - tenths| <= 1/2
IsRoundedTenths(ds, k, tenths) ==
    /\ tenths = 0 \/ BigLeq(BigShifted(2 * tenths - 1, k), BigTimes(ds, 20))
    /\ BigLeq(BigTimes(ds, 20), BigShifted(2 * tenths + 1, k))

\* The number of divisions by 1024 that bring the size below 1024.
DivisionsNeeded(ds) == Len(ds) - 1

Min(a, b) == IF a < b THEN a ELSE b

(***************************************************************************)
(* C15: for every non-negative integer size, format_size picks the unit    *)
(* whose index is min(4, number of divisions by 1024 needed to get below   *)
(* 1024) and shows the size in that unit rounded to one decimal; 0 bytes   *)
(* and absent input both give "0 B".                                       *)
(***************************************************************************)
C15_FormatSize ==
    (fn.op = "format_size" /\ fn.called) =>
        IF fn.input = NoneVal \/ fn.input.v = <<>> THEN fn.result = "0 B"
        ELSE LET ds == fn.input.v
                 k == Min(4, DivisionsNeeded(ds))
                 whole == WholeValue(SubSeq(ds, k + 1, Len(ds)))
             IN  \E tenths \in (10 * whole)..(10 * whole + 10) :
                    /\ fn.result = Fixed1(tenths) \o " " \o Units[k + 1]
                    /\ IsRoundedTenths(ds, k, tenths)

\* A size of at least 1024 TB, shown in TB, has been formatted.
C15_Witness ==
    /\ fn.op = "format_size" /\ fn.called
    /\ fn.input # NoneVal
    /\ DivisionsNeeded(fn.input.v) > 4
    /\ fn.result = "7680.5 TB"

(***************************************************************************)
(* C14: for a GitHub raw record whose diskUsage is a non-negative integer  *)
(* d, the mapped repository has size_bytes = d * 1024 and size =           *)
(* format_size(d * 1024); diskUsage 10 gives 10240 and "10.0 KB", and a    *)
(* missing or zero diskUsage gives 0 and "0 B".                            *)
(***************************************************************************)
C14_GithubSize ==
    (/\ fn.op = "github.extract_repo_info" /\ fn.called
     /\ fn.input.diskUsage.state \in {"value", "missing"}) =>
        LET d == IF fn.input.diskUsage.state = "missing" THEN 0
                 ELSE fn.input.diskUsage.v
        IN  /\ ~fn.result.raised
            /\ fn.result.info.size_bytes = d * 1024
            /\ fn.result.info.size = FormatSize(PyInt(d * 1024))
            /\ d = 10 => /\ fn.result.info.size_bytes = 10240
                         /\ fn.result.info.size = "10.0 KB"
            /\ d = 0 => /\ fn.result.info.size_bytes = 0
                        /\ fn.result.info.size = "0 B"

\* A record with diskUsage 10 has been mapped.
C14_Witness ==
    /\ fn.op = "github.extract_repo_info" /\ fn.called
    /\ fn.input.diskUsage = JValue(10)
    /\ fn.result.info.size = "10.0 KB"

(***************************************************************************)
(* C13 as stated: the visibility of every repository either adapter maps   *)
(* is one of "public", "private" and "unknown", whatever the raw record    *)
(* holds.                                                                  *)
(***************************************************************************)
ExtractReturned ==
    /\ fn.op \in {"github.extract_repo_info", "gitlab.extract_repo_info"}
    /\ fn.called
    /\ ~fn.result.raised

C13_VisibilityEnum ==
    ExtractReturned =>
        fn.result.info.visibility
            \in {JValue("public"), JValue("private"), JValue("unknown")}

(***************************************************************************)
(* C13, amended: the GitHub adapter yields "private" or "public" only; the *)
(* GitLab adapter yields "unknown" when the raw record has no visibility   *)
(* and otherwise the raw value unchanged, "internal" and null included.    *)
(***************************************************************************)
C13_VisibilityPassedThrough ==
    ExtractReturned =>
        IF fn.op = "github.extract_repo_info"
        THEN fn.result.info.visibility \in {JValue("public"), JValue("private")}
        ELSE fn.result.info.visibility =
                IF fn.input.visibility.state = "missing" THEN JValue("unknown")
                ELSE fn.input.visibility

\* A GitLab record of visibility "internal" has been mapped.
C13_Witness ==
    /\ ExtractReturned
    /\ fn.op = "gitlab.extract_repo_info"
    /\ fn.input.visibility = JValue("internal")
    /\ fn.result.info.visibility = JValue("internal")

(***************************************************************************)
(* C16: for a language byte-count mapping with total > 0 both adapters     *)
(* give every language bytes / total * 100 rounded to one decimal, so the  *)
(* percentages sum to 100 within 0.05 per language; with total 0, the      *)
(* empty mapping included, GitLab's get_repo_languages returns None and    *)
(* GitHub's mapping is empty, and nothing is divided by zero.              *)
(***************************************************************************)
RECURSIVE SumTenths(_)
SumTenths(langs) ==
    IF langs = <<>> THEN 0 ELSE Head(langs)[2] + SumTenths(Tail(langs))

Abs(x) == IF x < 0 THEN -x ELSE x

\* langs holds, in tenths of a percent, the shares of the counts in m.
IsPercentagesOf(m, langs) ==
    LET total == SumSizes(m)
    IN  /\ Len(langs) = Len(m)
        /\ \A i \in DOMAIN m :
              /\ langs[i][1] = m[i][1]
              /\ 2 * Abs(1000 * m[i][2] - langs[i][2] * total) <= total
        /\ 2 * Abs(SumTenths(langs) - 1000) <= Len(m)

C16_Percentages ==
    /\ (fn.op = "gitlab.get_repo_languages" /\ fn.called) =>
          LET m == fn.input.stdout[1].v
          IN  /\ ~fn.result.raised
              /\ IF SumSizes(m) = 0 THEN fn.result.isNone
                 ELSE ~fn.result.isNone /\ IsPercentagesOf(m, fn.result.langs)
    /\ (fn.op = "github.extract_repo_info" /\ fn.called /\ ~fn.result.raised) =>
          LET m == fn.input.languages.nodes
          IN  IF SumSizes(m) = 0 THEN fn.result.info.languages = <<>>
              ELSE IsPercentagesOf(m, fn.result.info.languages)

\* Three equal languages, whose shares sum to 99.9, have been computed by
\* one of the adapters.
C16_Witness ==
    /\ fn.called
    /\ \/ /\ fn.op = "gitlab.get_repo_languages"
          /\ fn.input.stdout[1].v = <<<<"Go", 1>>, <<"Rust", 1>>, <<"C", 1>>>>
          /\ SumTenths(fn.result.langs) = 999
       \/ /\ fn.op = "github.extract_repo_info"
          /\ fn.input.languages.nodes = <<<<"Go", 1>>, <<"Rust", 1>>, <<"C", 1>>>>
          /\ SumTenths(fn.result.info.languages) = 999

(***************************************************************************)
(* C20 as stated: check_gitlab_auth and check_github_auth return true      *)
(* exactly when the marker "Logged in" is in the combined output of the    *)
(* auth-status subcommand, whatever its exit status, and return false      *)
(* without raising when the tool is absent.                                *)
(***************************************************************************)
AuthChecked == fn.op \in AuthChecks /\ fn.called

C20_MarkerAloneDecides ==
    AuthChecked =>
        /\ fn.input.kind \in {"exit0", "nonzero"} =>
              /\ ~fn.result.raised
              /\ fn.result.ok <=> HasMarker(fn.input.stderr \o fn.input.stdout)
        /\ fn.input.kind = "absent" => ~fn.result.raised /\ ~fn.result.ok

(***************************************************************************)
(* C20, amended: they return true exactly when the subcommand exits with   *)
(* status 0 and the marker is in its combined output; they return false,   *)
(* without raising, when it exits with another status or the tool is       *)
(* absent.                                                                 *)
(***************************************************************************)
C20_MarkerAndExitZero ==
    AuthChecked =>
        /\ fn.input.kind \in {"exit0", "nonzero", "absent"} => ~fn.result.raised
        /\ fn.result.ok <=>
              /\ fn.input.kind = "exit0"
              /\ HasMarker(fn.input.stderr \o fn.input.stdout)

\* The marker was printed by a subcommand that exited with a non-zero
\* status, and the check answered false.
C20_Witness ==
    /\ AuthChecked
    /\ fn.input.kind = "nonzero"
    /\ HasMarker(fn.input.stderr \o fn.input.stdout)
    /\ ~fn.result.ok

(***************************************************************************)
(* C17 as stated: format_date never raises; an absent or empty input gives *)
(* the empty string; an input without a 'T' goes down the date-only parse  *)
(* path; a valid ISO-8601 instant gives its date as YYYY-MM-DD; every      *)
(* malformed input comes back unchanged.                                   *)
(***************************************************************************)
DateFormatted == fn.op = "format_date" /\ fn.called

\* A date in ISO-8601's extended format.
IsIsoDate(x) ==
    /\ x.kind = "date"
    /\ TwoDigits(x)
    /\ x.m \in 1..12
    /\ x.d \in 1..DaysInMonth(x.y, x.m)

\* An ISO-8601 date and time of day: the seconds run to 59, and to 60 in
\* the last minute of a day, where a leap second is inserted.
IsIsoInstant(x) ==
    /\ IsIsoDate(x)
    /\ x.sep = "T"
    /\ x.h \in 0..23 /\ x.mi \in 0..59
    /\ x.s \in 0..59 \/ (x.s = 60 /\ x.h = 23 /\ x.mi = 59)

\* The input is a string that is no date and no instant, however its
\* fields are written.
IsMalformed(x) ==
    /\ x.kind \in {"other", "date"}
    /\ x.kind = "date" =>
          \/ ~(x.m \in 1..12 /\ x.d \in 1..DaysInMonth(x.y, x.m))
          \/ x.sep \notin {"", "T"}
          \/ x.sep = "T" /\ ~(x.h \in 0..23 /\ x.mi \in 0..59 /\ x.s \in 0..60)
          \/ x.sep = "T" /\ ~TwoDigits(x)

DisplayDate(x) == Pad4(x.y) \o "-" \o Pad2(x.m) \o "-" \o Pad2(x.d)

C12_CsvTopicsJoined ==
    CsvWritten =>
        LET repos == AllRepos(csv.data)
            rows == DictGet(files, "out.csv").rows
        IN  /\ Len(rows) = Len(repos)
            /\ \A i \in DOMAIN repos :
                  rows[i].topics =
                      IF repos[i].topics = <<>> THEN "" ELSE Join(repos[i].topics, ", ")

(***************************************************************************)
(* C18: get_user_repos requests the pages 1, 2, 3, ... of the listing in   *)
(* that order, 100 items to a page; it requests page k+1 only after page k *)
(* was fetched, parsed and held exactly 100 items; it stops at the first   *)
(* page that fails, is empty or unparsable, or holds fewer than 100 items, *)
(* and keeps the items of all the pages before it; so the loop ends on     *)
(* every finite listing.                                                   *)
(***************************************************************************)
PageCalls ==
    LET IsPageCall(c) == c.cmd = "repo list --mine --page"
    IN  SelectSeq(calls, IsPageCall)

RECURSIVE ItemsOf(_)
ItemsOf(pages) == IF pages = <<>> THEN 0 ELSE Head(pages).n + ItemsOf(Tail(pages))

\* The loop of get_user_repos has been left by one of its breaks.
PagingStopped == gl.pc \in {"filter", "groups", "returned"} /\ gl.pages # <<>>

C18_Pagination ==
    gl.pc # "idle" =>
        /\ \A i \in DOMAIN PageCalls : PageCalls[i].arg = i
        /\ Len(PageCalls) <= MaxPages
        /\ Len(gl.pages) \in {Len(PageCalls), Len(PageCalls) - 1}
        /\ \A i \in DOMAIN gl.pages :
              /\ gl.pages[i].page = i
              /\ i < Len(PageCalls) => gl.pages[i].n = 100
        /\ Len(gl.all_repos_data) = ItemsOf(gl.pages)
        /\ PagingStopped =>
              /\ Len(gl.pages) = Len(PageCalls)
              /\ gl.pages[Len(gl.pages)].n < 100

\* A full first page was followed by a second page that failed, and the
\* hundred items of the first were kept.
C18_Witness ==
    /\ PagingStopped
    /\ Len(PageCalls) = 2
    /\ gl.pages[2].n = 0
    /\ Len(gl.all_repos_data) = 100

(***************************************************************************)
(* C19: in get_group_repos and get_user_repos with include_languages set,  *)
(* a language call that fails or yields nothing leaves the repository's    *)
(* languages and primary_language as base-mapped, and a statistics call    *)
(* that fails or yields no statistics leaves its size and size_bytes as    *)
(* base-mapped; neither absence raises or drops the repository, and        *)
(* enrichment changes no field other than these four.  With                *)
(* include_languages unset no enrichment call is made.                     *)
(***************************************************************************)
EnrichmentCalls ==
    LET IsEnrichment(c) == c.cmd \in {"api languages", "api statistics"}
    IN  SelectSeq(calls, IsEnrichment)

\* The answer is no language breakdown: the call failed, or its document
\* is empty, unparsable or sums to zero.
NoLanguages(o) ==
    \/ o.kind \in {"nonzero", "absent"}
    \/ o.kind = "exit0" /\ (\A i \in DOMAIN o.stdout : o.stdout[i].t # "obj")
    \/ o.kind = "exit0" /\ (\E i \in DOMAIN o.stdout :
                               o.stdout[i].t = "obj" /\ SumSizes(o.stdout[i].v) = 0)

\* The answer is no statistics: the call failed, or its document has none.
NoStatistics(o) ==
    \/ o.kind \in {"nonzero", "absent"}
    \/ o.kind = "exit0" /\ (\A i \in DOMAIN o.stdout : o.stdout[i].t # "obj")
    \/ o.kind = "exit0" /\ (\E i \in DOMAIN o.stdout :
                               o.stdout[i].t = "obj" /\ ~o.stdout[i].v[1].has_statistics)

\* Repository e is raw record raw, base-mapped and then enriched.
IsEnrichedFrom(e, raw) ==
    LET base == GlExtractRepoInfo(raw)
    IN  /\ e.path = base.path
        /\ e.namespace = base.namespace
        /\ e.visibility = base.visibility
        /\ e.topics = base.topics
        /\ "topics" \in e.keys
        /\ NoLanguages(gl.enrich.langs) =>
              /\ e.languages = base.languages
              /\ e.primary_language = base.primary_language
              /\ e.keys = base.keys
        /\ (NoStatistics(gl.enrich.stats) \/ raw.id = 0) =>
              /\ e.size = base.size
              /\ e.size_bytes = base.size_bytes

ShapeOps ==
    {"gitlab.extract_repo_info", "github.extract_repo_info",
     "gitlab.get_group_repos", "github.get_owner_repos", "gitlab.get_user_repos"}

C11_ShapeMismatchDefaults ==
    (fn.op \in ShapeOps /\ fn.called) =>
        /\ ~fn.result.raised
        /\ (fn.op = "gitlab.extract_repo_info" /\ ~fn.input.namespace.present) =>
              fn.result.info.namespace = ""
        /\ (fn.op = "github.extract_repo_info" /\ fn.input.diskUsage.state # "value") =>
              fn.result.info.size_bytes = 0

(***************************************************************************)
(* C22: generate emits its final "Reports generated successfully" message  *)
(* only if every renderer it invoked for the requested formats returned    *)
(* success; when at least one renderer reported a write failure the        *)
(* message is not emitted.                                                 *)
(***************************************************************************)
C22_SuccessOnlyIfAllWritten ==
    "Reports generated successfully" \in msgs =>
        \A i \in DOMAIN gen.writes : gen.writes[i].returned

(***************************************************************************)
(* Observations on generate's checks and on the listing calls.             *)
(***************************************************************************)
PlatformNames == {"gitlab", "github"}

ToolOf(p) == IF p = "gitlab" THEN "glab" ELSE "gh"

ListingCmds == {"repo list --mine --page", "repo list --group", "repo list"}

IsListingCall(c) == c.tool \in {"glab", "gh"} /\ c.cmd \in ListingCmds

ListingCalls == SelectSeq(calls, IsListingCall)

Selected(p) == gen.platform \in {"all", p}

ToFetch(p) ==
    IF p = "gitlab" THEN gen.should_fetch_gitlab ELSE gen.should_fetch_github

ChecksPassed(tool) ==
    \E i \in DOMAIN gen.checks :
        gen.checks[i] = [tool |-> tool, present |-> TRUE, authed |-> TRUE]

SomeCheckFailed ==
    \E i \in DOMAIN gen.checks : ~gen.checks[i].present \/ ~gen.checks[i].authed

CheckErrors ==
    {"glab CLI not found", "gh CLI not found",
     "Error: GitLab authentication required",
     "Error: GitHub authentication required"}

\* The presence check and then the auth check of a tool were run before
\* the k-th call.
CheckedBefore(tool, k) ==
    \E i, j \in 1..(k - 1) :
        /\ i < j
        /\ calls[i] = Call(tool, "--version", "")
        /\ calls[j] = Call(tool, "auth status", "")

(***************************************************************************)
(* C21: in generate no repository listing call is made for any platform    *)
(* until, for every platform that is to be fetched, the presence check and *)
(* the auth check have both been run and have both succeeded; when one of  *)
(* the checks fails for a platform the run ends with an error (an error    *)
(* message, or the exception of the check) with no listing call made for   *)
(* either platform and no output file written; and no call at all is made  *)
(* to the tool of a platform the platform selector excludes.               *)
(***************************************************************************)
C21_ChecksBeforeListing ==
    gen.pc # "idle" =>
        /\ \A k \in DOMAIN calls :
              IsListingCall(calls[k]) =>
                 \A p \in PlatformNames :
                    ToFetch(p) =>
                       /\ ChecksPassed(ToolOf(p))
                       /\ CheckedBefore(ToolOf(p), k)
        /\ SomeCheckFailed =>
              /\ ListingCalls = <<>>
              /\ files = <<>>
              /\ gen.pc \in {"done", "raised"}
              /\ gen.pc = "done" => msgs \cap CheckErrors # {}
        /\ \A p \in PlatformNames :
              ~Selected(p) =>
                 /\ \A k \in DOMAIN calls : calls[k].tool # ToolOf(p)
                 /\ \A i \in DOMAIN gen.checks : gen.checks[i].tool # ToolOf(p)

C21_Witness ==
    /\ gen.pc = "done"
    /\ gen.platform = "all"
    /\ ToFetch("gitlab") /\ ToFetch("github")
    /\ ChecksPassed("glab") /\ ChecksPassed("gh")
    /\ \E k \in DOMAIN ListingCalls : ListingCalls[k].tool = "glab"
    /\ \E k \in DOMAIN ListingCalls : ListingCalls[k].tool = "gh"
    /\ files # <<>>

====
